---- MODULE Spec2Model ----
(***************************************************************************)
(* A model of indexify's task allocator (server/processor/src/             *)
(* task_allocator.rs) and of its system-task executor, the replay driver   *)
(* (server/src/system_tasks.rs).                                           *)
(*                                                                         *)
(* Option<T> values are sequences of length at most one: <<>> is None and  *)
(* <<x>> is Some(x).                                                       *)
(***************************************************************************)
EXTENDS Integers, Sequences, FiniteSets, TLC

\* ---------------------------------------------------------------- constants

\* task_allocator.rs:39
MAX_ALLOCATIONS_PER_EXECUTOR == 20

\* Task ids beyond the first MAX_ALLOCATIONS_PER_EXECUTOR ones.
ExtraTasks == 2

\* How many tasks the environment may bring to a terminal outcome.
MaxFinalized == 1

\* system_tasks.rs:14
MAX_PENDING_TASKS == 10

\* Invocations of graph g1 beyond the first MAX_PENDING_TASKS ones.
ExtraInvocations == 2

\* Invocations of graph g2.
SmallGraphInvocations == 1

\* How many state-store reads and writes of the driver may fail.
MaxFailures == 1

\* Direct calls of allocate and schedule_tasks in a behaviour, at most.
MaxDirectCalls == 1

\* The longest list of tasks a direct call of schedule_tasks is given.
MaxDirectTasks == 2

None == <<>>

Some(x) == <<x>>

is_none(o) == o = <<>>

unwrap_or(o, d) == IF o = <<>> THEN d ELSE o[1]

\* ---------------------------------------------------------------- universe

\* Executor ids, in the iteration order of the executors map.
ExecutorOrder == <<"e1", "e2">>

ExecutorIds == {ExecutorOrder[i] : i \in 1..Len(ExecutorOrder)}

TaskIds == 1..(MAX_ALLOCATIONS_PER_EXECUTOR + ExtraTasks)

FunctionURI(ns, g, f, v) ==
    [namespace |-> ns, compute_graph_name |-> g, compute_fn_name |-> f, version |-> v]

\* Option<Vec<FunctionURI>>: the allowlists an executor of the model may declare.
AllowlistChoices ==
    { None,
      Some(<<>>),
      Some(<<FunctionURI("ns", "g", "f", None)>>),
      Some(<<FunctionURI("ns", "g", "f", Some(2)), FunctionURI("ns", "g", "h", Some(1))>>),
      Some(<<FunctionURI("other", "g", "f", Some(1)), FunctionURI("ns", "g", "f", Some(1))>>) }

\* The allowlists the initially loaded executor may declare: each admits f at version 1.
InitialAllowlists ==
    { None, Some(<<FunctionURI("ns", "g", "f", None)>>) }

\* (compute_fn_name, graph_version) of the tasks the environment creates.
\* Version 2 of the graph has no node h; version 3 is not in the index.
TaskShapes == { <<"f", 1>>, <<"h", 1>>, <<"h", 2>>, <<"f", 3>> }

Task(id, fn, ver, status, outcome) ==
    [id |-> id, namespace |-> "ns", compute_graph_name |-> "g", compute_fn_name |-> fn,
     graph_version |-> ver, status |-> status, outcome |-> outcome]

ComputeGraphVersion(ns, g, v, nodes) ==
    [namespace |-> ns, compute_graph_name |-> g, version |-> v, nodes |-> nodes]

\* Task::key_compute_graph_version
key_compute_graph_version(task) ==
    <<task.namespace, task.compute_graph_name, task.graph_version>>

\* is_terminal that holds of no outcome.
is_terminal_never(outcome) == FALSE

\* TaskOutcome::is_terminal
is_terminal(outcome) == outcome \in {"Success", "Failure"}

\* ---------------------------------------------------------------- state

VARIABLES
    executors,                \* InMemoryState.executors: id -> ExecutorMetadata
    tasks,                    \* InMemoryState.tasks: task key -> Task
    allocations_by_executor,  \* InMemoryState.allocations_by_executor: id -> Seq(Allocation)
    unallocated_tasks,        \* InMemoryState.unallocated_tasks: set of task keys
    compute_graph_versions,   \* InMemoryState.compute_graph_versions: key -> version
    request,                  \* the call of invoke the caller has not handled yet:
                              \* None, or Some of its change and its
                              \* Result<SchedulerUpdateRequest>
    registered,               \* executor ids that ever joined (ids are not reused)
    placement,                \* the last direct call of allocate or schedule_tasks:
                              \* None, or Some of the call and its
                              \* Result<TaskPlacementResult>
    direct_calls              \* the direct calls of allocate and schedule_tasks so far

alloc_vars ==
    <<executors, tasks, allocations_by_executor, unallocated_tasks,
      compute_graph_versions, request, registered, placement, direct_calls>>

\* The in-memory indexes as one value, as invoke receives them.
Indexes ==
    [executors |-> executors, tasks |-> tasks,
     allocations_by_executor |-> allocations_by_executor,
     unallocated_tasks |-> unallocated_tasks,
     compute_graph_versions |-> compute_graph_versions]

Allocation(task, executor_id) ==
    [task_id |-> task.id, executor_id |-> executor_id,
     namespace |-> task.namespace, compute_graph |-> task.compute_graph_name,
     compute_fn |-> task.compute_fn_name]

\* Allocation::task_key: the key of the allocation's task in the task index
task_key(allocation) == allocation.task_id

SchedulerUpdateRequest(new, removed, updated, remove_executors) ==
    [new_allocations |-> new, remove_allocations |-> removed,
     updated_tasks |-> updated, remove_executors |-> remove_executors]

\* ---------------------------------------------------------------- helpers

RECURSIVE SeqFilterIn(_, _)
\* The elements of s that are in set S, in order.
SeqFilterIn(s, S) ==
    IF s = <<>> THEN <<>>
    ELSE IF Head(s) \in S THEN <<Head(s)>> \o SeqFilterIn(Tail(s), S)
         ELSE SeqFilterIn(Tail(s), S)

Range(s) == {s[i] : i \in 1..Len(s)}

RECURSIVE SetToSortedSeq(_)
\* The unallocated index yields its ids in ascending order.
SetToSortedSeq(S) ==
    IF S = {} THEN <<>>
    ELSE LET m == CHOOSE x \in S : \A y \in S : x <= y
         IN <<m>> \o SetToSortedSeq(S \ {m})

\* ---------------------------------------------------------------- allocator

\* func_matches without the comparison of versions.
func_matches_any_version(func_uri, compute_graph, node) ==
    /\ func_uri.compute_fn_name = node.name
    /\ func_uri.compute_graph_name = compute_graph.compute_graph_name
    /\ func_uri.namespace = compute_graph.namespace

\* func_matches (task_allocator.rs:289-300)
func_matches(func_uri, compute_graph, node) ==
    /\ func_uri.compute_fn_name = node.name
    /\ func_uri.compute_graph_name = compute_graph.compute_graph_name
    /\ unwrap_or(func_uri.version, compute_graph.version) = compute_graph.version
    /\ func_uri.namespace = compute_graph.namespace

\* executor_admitted that looks at the first entry of the allowlist only.
executor_admitted_first_entry(executor, compute_graph, node) ==
    IF is_none(executor.function_allowlist)
    THEN TRUE
    ELSE LET allowlist == executor.function_allowlist[1]
         IN allowlist # <<>> /\ func_matches(allowlist[1], compute_graph, node)

\* The match arm of filter_executors for one executor: Some(allowlist) admits the
\* executor iff some entry matches, None admits it.
executor_admitted(executor, compute_graph, node) ==
    IF is_none(executor.function_allowlist)
    THEN TRUE
    ELSE LET allowlist == executor.function_allowlist[1]
         IN \E i \in 1..Len(allowlist) : func_matches(allowlist[i], compute_graph, node)

RECURSIVE filter_executors(_, _, _)
\* filter_executors (task_allocator.rs:260-286): the ids of the admitted executors, in order.
filter_executors(compute_graph, node, execs) ==
    IF execs = <<>> THEN <<>>
    ELSE (IF executor_admitted(Head(execs), compute_graph, node)
          THEN <<Head(execs).id>> ELSE <<>>)
         \o filter_executors(compute_graph, node, Tail(execs))

Ok(v) == [ok |-> TRUE, value |-> v]

Err(msg) == [ok |-> FALSE, value |-> msg]

\* allocate_task that always takes the first executor of the filtered set.
allocate_task_first(task, indexes, execs) ==
    LET key == key_compute_graph_version(task) IN
    IF key \notin DOMAIN indexes.compute_graph_versions
    THEN {Err("compute graph not found")}
    ELSE LET compute_graph_version == indexes.compute_graph_versions[key] IN
         IF task.compute_fn_name \notin DOMAIN compute_graph_version.nodes
         THEN {Err("compute fn not found")}
         ELSE LET compute_fn == compute_graph_version.nodes[task.compute_fn_name]
                  filtered == filter_executors(compute_graph_version, compute_fn, execs)
              IN IF filtered = <<>>
                 THEN {Ok(None)}
                 ELSE {Ok(Some(Allocation(task, filtered[1])))}

\* allocate_task (task_allocator.rs:225-258): the set of Results the call can return,
\* one per executor the random choice can pick.
allocate_task(task, indexes, execs) ==
    LET key == key_compute_graph_version(task) IN
    IF key \notin DOMAIN indexes.compute_graph_versions
    THEN {Err("compute graph not found")}
    ELSE LET compute_graph_version == indexes.compute_graph_versions[key] IN
         IF task.compute_fn_name \notin DOMAIN compute_graph_version.nodes
         THEN {Err("compute fn not found")}
         ELSE LET compute_fn == compute_graph_version.nodes[task.compute_fn_name]
                  filtered == filter_executors(compute_graph_version, compute_fn, execs)
              IN IF filtered = <<>>
                 THEN {Ok(None)}
                 ELSE {Ok(Some(Allocation(task, filtered[i]))) : i \in 1..Len(filtered)}

\* The allocation count of the capacity filter (task_allocator.rs:166-167).
allocation_count(indexes, k) ==
    IF k \in DOMAIN indexes.allocations_by_executor
    THEN Len(indexes.allocations_by_executor[k])
    ELSE 0

\* has_capacity with the bound included: an executor at the maximum is still eligible.
has_capacity_inclusive(indexes, k) ==
    allocation_count(indexes, k) <= MAX_ALLOCATIONS_PER_EXECUTOR

\* has_capacity without a bound.
has_capacity_always(indexes, k) == TRUE

\* The capacity test of the filter (task_allocator.rs:168).
has_capacity(indexes, k) ==
    allocation_count(indexes, k) < MAX_ALLOCATIONS_PER_EXECUTOR

RECURSIVE executors_of(_, _)
\* The executors map's values for the ids of `order` that are in the map, in order.
executors_of(indexes, order) ==
    IF order = <<>> THEN <<>>
    ELSE (IF Head(order) \in DOMAIN indexes.executors
          THEN <<indexes.executors[Head(order)]>> ELSE <<>>)
         \o executors_of(indexes, Tail(order))

\* The executors with allocation capacity (task_allocator.rs:161-171).
executors_with_capacity(indexes) ==
    executors_of(indexes,
                 SeqFilterIn(ExecutorOrder,
                             {k \in DOMAIN indexes.executors : has_capacity(indexes, k)}))

\* set_running that leaves the status as it is.
set_running_skipped(task) == task

\* task.status = TaskStatus::Running (task_allocator.rs:191)
set_running(task) == [task EXCEPT !.status = "Running"]

\* push_allocation that leaves the index as it is.
push_allocation_skipped(by_executor, allocation) == by_executor

\* allocations_by_executor.entry(id).or_default().push_back(allocation)
\* (task_allocator.rs:192-196)
push_allocation(by_executor, allocation) ==
    LET id == allocation.executor_id
        old == IF id \in DOMAIN by_executor THEN by_executor[id] ELSE <<>>
    IN [k \in DOMAIN by_executor \cup {id} |->
           IF k = id THEN Append(old, allocation) ELSE by_executor[k]]

\* remove_unallocated that leaves the id in the index.
remove_unallocated_skipped(unallocated, task) == unallocated

\* unallocated_tasks.remove(&UnallocatedTaskId::new(&task)) (task_allocator.rs:198-200)
remove_unallocated(unallocated, task) == unallocated \ {task.id}

\* record_allocation without the write of the task to the task index.
record_allocation_no_task_write(acc, task0, allocation) ==
    LET task == set_running(task0)
        indexes == acc.indexes
    IN [indexes |->
           [indexes EXCEPT
              !.allocations_by_executor = push_allocation(@, allocation),
              !.unallocated_tasks = remove_unallocated(@, task)],
        new_allocations |-> Append(acc.new_allocations, allocation),
        updated_tasks |-> Append(acc.updated_tasks, task)]

\* The Ok(Some(allocation)) arm of schedule_tasks (task_allocator.rs:180-202):
\* acc is [indexes, new_allocations, updated_tasks].
record_allocation(acc, task0, allocation) ==
    LET task == set_running(task0)
        indexes == acc.indexes
    IN [indexes |->
           [indexes EXCEPT
              !.allocations_by_executor = push_allocation(@, allocation),
              !.tasks = [k \in DOMAIN @ \cup {task.id} |-> IF k = task.id THEN task ELSE @[k]],
              !.unallocated_tasks = remove_unallocated(@, task)],
        new_allocations |-> Append(acc.new_allocations, allocation),
        updated_tasks |-> Append(acc.updated_tasks, task)]

RECURSIVE schedule_loop(_, _)
\* schedule_loop that gives up the remaining tasks when allocate_task fails.
schedule_loop_aborts(todo, acc) ==
    IF todo = <<>> THEN {acc}
    ELSE LET task == Head(todo) IN
         IF is_terminal(task.outcome)
         THEN schedule_loop(Tail(todo), acc)
         ELSE LET execs == executors_with_capacity(acc.indexes) IN
              IF execs = <<>>
              THEN {acc}
              ELSE UNION { IF r.ok /\ ~is_none(r.value)
                           THEN schedule_loop(Tail(todo),
                                              record_allocation(acc, task, r.value[1]))
                           ELSE IF r.ok THEN schedule_loop(Tail(todo), acc) ELSE {acc}
                           : r \in allocate_task(task, acc.indexes, execs) }

\* schedule_loop that ends the batch at the first task no executor admits.
schedule_loop_breaks_on_none(todo, acc) ==
    IF todo = <<>> THEN {acc}
    ELSE LET task == Head(todo) IN
         IF is_terminal(task.outcome)
         THEN schedule_loop(Tail(todo), acc)
         ELSE LET execs == executors_with_capacity(acc.indexes) IN
              IF execs = <<>>
              THEN {acc}
              ELSE UNION { IF r.ok /\ ~is_none(r.value)
                           THEN schedule_loop(Tail(todo),
                                              record_allocation(acc, task, r.value[1]))
                           ELSE IF r.ok THEN {acc} ELSE schedule_loop(Tail(todo), acc)
                           : r \in allocate_task(task, acc.indexes, execs) }

\* The loop of schedule_tasks (task_allocator.rs:143-217) over the remaining tasks:
\* the set of accumulators it can end with.
schedule_loop(todo, acc) ==
    IF todo = <<>> THEN {acc}
    ELSE LET task == Head(todo) IN
         IF is_terminal(task.outcome)
         THEN schedule_loop(Tail(todo), acc)
         ELSE LET execs == executors_with_capacity(acc.indexes) IN
              IF execs = <<>>
              THEN {acc}
              ELSE UNION { IF r.ok /\ ~is_none(r.value)
                           THEN schedule_loop(Tail(todo),
                                              record_allocation(acc, task, r.value[1]))
                           ELSE schedule_loop(Tail(todo), acc)
                           : r \in allocate_task(task, acc.indexes, execs) }

TaskPlacementResult(indexes, new, removed, updated) ==
    [indexes |-> indexes, new_allocations |-> new,
     remove_allocations |-> removed, updated_tasks |-> updated]

\* schedule_tasks (task_allocator.rs:126-223): the set of (indexes, result) pairs
\* the call can end with.
schedule_tasks(todo, indexes) ==
    IF DOMAIN indexes.executors = {}
    THEN {TaskPlacementResult(indexes, <<>>, <<>>, <<>>)}
    ELSE { TaskPlacementResult(acc.indexes, acc.new_allocations, <<>>, acc.updated_tasks) :
           acc \in schedule_loop(todo, [indexes |-> indexes, new_allocations |-> <<>>,
                                        updated_tasks |-> <<>>]) }

RECURSIVE resolve_tasks(_, _)
\* The first loop of allocate (task_allocator.rs:104-115): ids missing from the task
\* index are skipped.
resolve_tasks(ids, indexes) ==
    IF ids = <<>> THEN <<>>
    ELSE (IF Head(ids) \in DOMAIN indexes.tasks
          THEN <<indexes.tasks[Head(ids)]>> ELSE <<>>)
         \o resolve_tasks(Tail(ids), indexes)

\* allocate (task_allocator.rs:103-124)
allocate(indexes) ==
    LET unallocated_task_ids == SetToSortedSeq(indexes.unallocated_tasks)
        todo == resolve_tasks(unallocated_task_ids, indexes)
    IN IF todo = <<>>
       THEN {TaskPlacementResult(indexes, <<>>, <<>>, <<>>)}
       ELSE schedule_tasks(todo, indexes)

\* set_pending that leaves the status as it is.
set_pending_skipped(task) == task

\* task.status = TaskStatus::Pending (task_allocator.rs:75-77)
set_pending(task) == [task EXCEPT !.status = "Pending"]

\* tombstone_updated_tasks that looks at the first allocation only.
tombstone_updated_tasks_first_only(allocations, indexes) ==
    IF allocations = <<>> \/ task_key(Head(allocations)) \notin DOMAIN indexes.tasks
    THEN <<>>
    ELSE <<set_pending(indexes.tasks[task_key(Head(allocations))])>>

RECURSIVE tombstone_updated_tasks(_, _)
\* The loop of the TombStoneExecutor arm (task_allocator.rs:72-84): an allocation
\* whose task is missing from the index adds no task.
tombstone_updated_tasks(allocations, indexes) ==
    IF allocations = <<>> THEN <<>>
    ELSE (IF task_key(Head(allocations)) \in DOMAIN indexes.tasks
          THEN <<set_pending(indexes.tasks[task_key(Head(allocations))])>> ELSE <<>>)
         \o tombstone_updated_tasks(Tail(allocations), indexes)

\* remove_executors of the TombStoneExecutor arm (task_allocator.rs:93)
tombstone_remove_executors(executor_id) == <<executor_id>>

\* The TombStoneExecutor arm of invoke (task_allocator.rs:66-95)
tombstone_executor(executor_id, indexes) ==
    LET allocations == IF executor_id \in DOMAIN indexes.allocations_by_executor
                       THEN indexes.allocations_by_executor[executor_id]
                       ELSE <<>>
    IN SchedulerUpdateRequest(<<>>, allocations,
                              tombstone_updated_tasks(allocations, indexes),
                              tombstone_remove_executors(executor_id))

ChangeType(kind, executor_id) == [kind |-> kind, executor_id |-> executor_id]

HandledKinds == {"ExecutorAdded", "ExecutorRemoved", "TombStoneExecutor"}

\* A change type invoke has no arm for.
OtherKinds == {"InvokeComputeGraph"}

\* unhandled_change that answers with an empty update.
unhandled_change_ignored(change, indexes) ==
    { [indexes |-> indexes, result |-> Ok(SchedulerUpdateRequest(<<>>, <<>>, <<>>, <<>>))] }

\* The wildcard arm of invoke (task_allocator.rs:96-99)
unhandled_change(change, indexes) ==
    { [indexes |-> indexes, result |-> Err("unhandled change type")] }

\* invoke with ExecutorRemoved handled as TombStoneExecutor is.
invoke_removed_reclaims(change, indexes) ==
    IF change.kind = "ExecutorAdded"
    THEN { [indexes |-> r.indexes,
            result |-> Ok(SchedulerUpdateRequest(r.new_allocations, r.remove_allocations,
                                                 r.updated_tasks, <<>>))]
           : r \in allocate(indexes) }
    ELSE IF change.kind \in {"ExecutorRemoved", "TombStoneExecutor"}
    THEN { [indexes |-> indexes, result |-> Ok(tombstone_executor(change.executor_id, indexes))] }
    ELSE unhandled_change(change, indexes)

\* invoke (task_allocator.rs:49-101): the set of outcomes [indexes, result], result
\* a Result<SchedulerUpdateRequest>.
invoke(change, indexes) ==
    IF change.kind \in {"ExecutorAdded", "ExecutorRemoved"}
    THEN { [indexes |-> r.indexes,
            result |-> Ok(SchedulerUpdateRequest(r.new_allocations, r.remove_allocations,
                                                 r.updated_tasks, <<>>))]
           : r \in allocate(indexes) }
    ELSE IF change.kind = "TombStoneExecutor"
    THEN { [indexes |-> indexes, result |-> Ok(tombstone_executor(change.executor_id, indexes))] }
    ELSE unhandled_change(change, indexes)

\* ---------------------------------------------------------------- state store

RECURSIVE write_tasks(_, _)
\* The task index after the tasks of `updated` are written to it.
write_tasks(index, updated) ==
    IF updated = <<>> THEN index
    ELSE LET t == Head(updated)
         IN write_tasks([k \in DOMAIN index \cup {t.id} |-> IF k = t.id THEN t ELSE index[k]],
                        Tail(updated))

RECURSIVE add_allocations(_, _)
\* The allocation index with the allocations of `new`, each indexed once.
add_allocations(by_executor, new) ==
    IF new = <<>> THEN by_executor
    ELSE LET a == Head(new)
             present == a.executor_id \in DOMAIN by_executor
                        /\ a \in Range(by_executor[a.executor_id])
         IN add_allocations(IF present THEN by_executor ELSE push_allocation(by_executor, a),
                            Tail(new))

\* The allocation index without the allocations of `removed` and without the
\* entries of the executors of `gone`.
drop_allocations(by_executor, removed, gone) ==
    [k \in DOMAIN by_executor \ Range(gone) |->
        SeqFilterIn(by_executor[k], Range(by_executor[k]) \ Range(removed))]

\* The in-memory indexes after a SchedulerUpdateRequest is applied: updated tasks
\* are written, a Pending task is (re-)inserted in the unallocated index, new
\* allocations are indexed, removed ones and removed executors dropped.
apply_update(req, indexes) ==
    [indexes EXCEPT
       !.tasks = write_tasks(@, req.updated_tasks),
       !.unallocated_tasks =
           @ \cup {t.id : t \in {u \in Range(req.updated_tasks) :
                                   u.status = "Pending" /\ ~is_terminal(u.outcome)}},
       !.allocations_by_executor =
           drop_allocations(add_allocations(@, req.new_allocations),
                            req.remove_allocations, req.remove_executors),
       !.executors = [k \in DOMAIN @ \ Range(req.remove_executors) |-> @[k]]]

\* The compute graph versions of the index: version 1 of graph g has nodes f and h,
\* version 2 has node f only.
InitialGraphVersions ==
    LET node(n) == [name |-> n]
        key(v) == <<"ns", "g", v>>
    IN [k \in {key(1), key(2)} |->
          IF k = key(1)
          THEN ComputeGraphVersion("ns", "g", 1, [n \in {"f", "h"} |-> node(n)])
          ELSE ComputeGraphVersion("ns", "g", 2, [n \in {"f"} |-> node(n)])]

\* The allocations executor e1 holds initially.
InitialLoads == {0, MAX_ALLOCATIONS_PER_EXECUTOR - 1, MAX_ALLOCATIONS_PER_EXECUTOR}

ExecutorMetadata(id, allowlist) == [id |-> id, function_allowlist |-> allowlist]

\* Executor e1 has joined and runs tasks 1..load of function f at version 1.
AllocInitWith(load, allowlist) ==
    /\ executors = [k \in {"e1"} |-> ExecutorMetadata("e1", allowlist)]
    /\ tasks = [i \in 1..load |-> Task(i, "f", 1, "Running", "Unknown")]
    /\ allocations_by_executor =
           [k \in {"e1"} |-> [i \in 1..load |->
                                 Allocation(Task(i, "f", 1, "Running", "Unknown"), "e1")]]
    /\ unallocated_tasks = {}
    /\ compute_graph_versions = InitialGraphVersions
    /\ request = None
    /\ registered = {"e1"}
    /\ placement = None
    /\ direct_calls = 0

AllocInit ==
    \E load \in InitialLoads, allowlist \in InitialAllowlists : AllocInitWith(load, allowlist)

\* The allocator's state while only the replay driver runs.
AllocIdle == AllocInitWith(0, None)

\* The ids of the tasks created after the start.
ExtraTaskIds ==
    (MAX_ALLOCATIONS_PER_EXECUTOR + 1)..(MAX_ALLOCATIONS_PER_EXECUTOR + ExtraTasks)

\* Ids of the tasks executor e2 runs in the inputs of a single call.
SecondLoadBase == 100

\* Inputs of a single call of invoke that break an assumption the code guards
\* against: a terminal task in the unallocated index (task_allocator.rs:154-157),
\* unallocated ids without a task (106-114), an allocation without a task (73-83).
Defects == {"none", "terminal_first", "missing_first", "missing_all", "dangling_alloc"}

\* The shapes of the unallocated tasks of an input: any shape for the first
\* task, function f at version 1 for the later ones.
PassShapes ==
    { s \in [ExtraTaskIds -> TaskShapes] :
         \A i \in ExtraTaskIds : i # MAX_ALLOCATIONS_PER_EXECUTOR + 1 => s[i] = <<"f", 1>> }

\* The executors `present` have joined; e1 runs tasks 1..load1 and e2 runs load2
\* tasks, all of function f at version 1; every task of ExtraTaskIds is
\* unallocated, with the shape `shapes` gives it.
PassInitWith(present, allowlist, load1, load2, shapes, defect) ==
    LET first == MAX_ALLOCATIONS_PER_EXECUTOR + 1
        loaded(e) == IF e = "e1" THEN 1..load1
                     ELSE (SecondLoadBase + 1)..(SecondLoadBase + load2)
        running == UNION {loaded(e) : e \in present}
        absent == CASE defect = "missing_first" -> {first}
                    [] defect = "missing_all" -> ExtraTaskIds
                    [] defect = "dangling_alloc" -> {1}
                    [] OTHER -> {}
        outcome(i) == IF defect = "terminal_first" /\ i = first THEN "Success" ELSE "Unknown"
    IN /\ executors = [k \in present |->
                          ExecutorMetadata(k, IF k = "e1" THEN allowlist ELSE None)]
       /\ tasks = [i \in (running \cup ExtraTaskIds) \ absent |->
                      IF i \in ExtraTaskIds
                      THEN Task(i, shapes[i][1], shapes[i][2], "Pending", outcome(i))
                      ELSE Task(i, "f", 1, "Running", "Unknown")]
       /\ allocations_by_executor =
              [k \in present |->
                  LET ids == SetToSortedSeq(loaded(k))
                  IN [i \in 1..Len(ids) |->
                         Allocation(Task(ids[i], "f", 1, "Running", "Unknown"), k)]]
       /\ unallocated_tasks = ExtraTaskIds
       /\ compute_graph_versions = InitialGraphVersions
       /\ request = None
       /\ registered = ExecutorIds
       /\ placement = None
       /\ direct_calls = 0

\* The allowlists of executor e1 in the inputs of a single call: those of
\* AllowlistChoices and one whose first entry has another version than its second.
PassAllowlists ==
    AllowlistChoices
      \cup { Some(<<FunctionURI("ns", "g", "f", Some(2)), FunctionURI("ns", "g", "f", Some(1))>>) }

PassInit ==
    \E present \in {{}, {"e1"}, {"e1", "e2"}}, allowlist \in PassAllowlists,
       load1 \in InitialLoads, load2 \in {0, MAX_ALLOCATIONS_PER_EXECUTOR},
       shapes \in PassShapes, defect \in Defects :
          PassInitWith(present, allowlist, load1, load2, shapes, defect)

SetIndexes(indexes) ==
    /\ executors' = indexes.executors
    /\ tasks' = indexes.tasks
    /\ allocations_by_executor' = indexes.allocations_by_executor
    /\ unallocated_tasks' = indexes.unallocated_tasks
    /\ compute_graph_versions' = indexes.compute_graph_versions

\* An executor joins with its allowlist.
RegisterExecutor(id, allowlist) ==
    /\ request = None
    /\ id \notin registered
    /\ registered' = registered \cup {id}
    /\ executors' = [k \in DOMAIN executors \cup {id} |->
                        IF k = id THEN ExecutorMetadata(id, allowlist) ELSE executors[k]]
    /\ UNCHANGED <<tasks, allocations_by_executor, unallocated_tasks,
                   compute_graph_versions, request, placement, direct_calls>>

\* The graph-execution subsystem creates a task: Pending, in the unallocated index.
CreateTask(shape) ==
    /\ request = None
    /\ ExtraTaskIds \ DOMAIN tasks # {}
    /\ LET id == CHOOSE x \in ExtraTaskIds \ DOMAIN tasks :
                     \A y \in ExtraTaskIds \ DOMAIN tasks : x <= y
           task == Task(id, shape[1], shape[2], "Pending", "Unknown")
       IN /\ tasks' = [k \in DOMAIN tasks \cup {id} |-> IF k = id THEN task ELSE tasks[k]]
          /\ unallocated_tasks' = unallocated_tasks \cup {id}
    /\ UNCHANGED <<executors, allocations_by_executor, compute_graph_versions,
                   request, registered, placement, direct_calls>>

\* The task at the head of an executor's allocations reaches a terminal outcome:
\* its allocation is destroyed.
FinalizeTask(id) ==
    /\ request = None
    /\ id \in DOMAIN allocations_by_executor
    /\ allocations_by_executor[id] # <<>>
    /\ Cardinality({t \in DOMAIN tasks : is_terminal(tasks[t].outcome)}) < MaxFinalized
    /\ LET t == task_key(Head(allocations_by_executor[id]))
       IN /\ tasks' = [tasks EXCEPT ![t] = [@ EXCEPT !.status = "Completed",
                                                      !.outcome = "Success"]]
          /\ unallocated_tasks' = unallocated_tasks \ {t}
    /\ allocations_by_executor' = [allocations_by_executor EXCEPT ![id] = Tail(@)]
    /\ UNCHANGED <<executors, compute_graph_versions, request, registered,
                   placement, direct_calls>>

\* The caller runs invoke on the indexes (task_allocator.rs:49-101).
Invoke(change) ==
    /\ request = None
    /\ \E o \in invoke(change, Indexes) :
          /\ SetIndexes(o.indexes)
          /\ request' = Some([change |-> change, result |-> o.result])
    /\ UNCHANGED <<registered, placement, direct_calls>>

\* The status and outcome of a task a caller hands to schedule_tasks.
DirectTaskStates ==
    { <<"Pending", "Unknown">>, <<"Running", "Unknown">>, <<"Completed", "Success">> }

\* The tasks a caller can hand to schedule_tasks: the tasks of the index as they
\* are, and any task whose id is in the index or is one of ExtraTaskIds, of any
\* shape, status and outcome, so also a copy that differs from the index's task
\* and a task the index does not hold.
DirectTasks ==
    {tasks[t] : t \in DOMAIN tasks}
      \cup { Task(id, shape[1], shape[2], st[1], st[2]) :
               id \in DOMAIN tasks \cup ExtraTaskIds, shape \in TaskShapes,
               st \in DirectTaskStates }

\* The Vec<Box<Task>> of a direct call of schedule_tasks (task_allocator.rs:128):
\* any list of at most MaxDirectTasks tasks, a task twice included.
DirectTaskLists ==
    UNION { [1..n -> DirectTasks] : n \in 0..MaxDirectTasks }

\* The record of a direct call and its Ok(TaskPlacementResult).
Placement(call, r) ==
    [call |-> call,
     result |-> Ok([new_allocations |-> r.new_allocations,
                    remove_allocations |-> r.remove_allocations,
                    updated_tasks |-> r.updated_tasks])]

\* A caller runs allocate on the indexes (task_allocator.rs:103-124).
Allocate ==
    /\ request = None
    /\ direct_calls < MaxDirectCalls
    /\ direct_calls' = direct_calls + 1
    /\ \E r \in allocate(Indexes) :
          /\ SetIndexes(r.indexes)
          /\ placement' = Some(Placement("allocate", r))
    /\ UNCHANGED <<request, registered>>

\* A caller runs schedule_tasks on tasks of its choice (task_allocator.rs:126-223).
ScheduleTasks(todo) ==
    /\ request = None
    /\ direct_calls < MaxDirectCalls
    /\ direct_calls' = direct_calls + 1
    /\ \E r \in schedule_tasks(todo, Indexes) :
          /\ SetIndexes(r.indexes)
          /\ placement' = Some(Placement("schedule_tasks", r))
    /\ UNCHANGED <<request, registered>>

\* The caller applies the returned update; an Err carries none.
ApplyUpdate ==
    /\ request # None
    /\ SetIndexes(IF request[1].result.ok
                  THEN apply_update(request[1].result.value, Indexes)
                  ELSE Indexes)
    /\ request' = None
    /\ UNCHANGED <<registered, placement, direct_calls>>

Changes ==
    {ChangeType(k, e) : k \in HandledKinds \cup OtherKinds, e \in ExecutorIds}

\* ---------------------------------------------------------------- replay driver

VARIABLES
    system_tasks,          \* the state store's system tasks: graph name -> SystemTask
    pending_system_tasks,  \* the state store's count of pending system tasks
    invocations,           \* graph name -> Seq of invocation contexts, in listing order
    pc,                    \* where the driver is: "run", "write_replay", "completion",
                           \* "write_remove", "write_update", "select" or "stopped"
    local,                 \* the locals of the iteration under way
    emitted,               \* the requests the iteration has written, in order
    last_result,           \* "none", "ok" or "err": how the last iteration ended
    changed,               \* the system-tasks watch holds a change not seen yet
    shutdown,              \* the shutdown watch has been signalled
    failures,              \* state-store failures so far
    removals,              \* graph name -> RemoveSystemTask requests written
    carried                \* graph name -> invocation ids carried by written
                           \* ReplayInvocations requests

driver_vars ==
    <<system_tasks, pending_system_tasks, invocations, pc, local, emitted, last_result,
      changed, shutdown, failures, removals, carried>>

\* Graph names, in the order get_system_tasks lists their system tasks.
GraphOrder == <<"g1", "g2">>

GraphNames == {GraphOrder[i] : i \in 1..Len(GraphOrder)}

\* The number of invocations of each graph.
InvocationCount(g) ==
    IF g = "g1" THEN MAX_PENDING_TASKS + ExtraInvocations ELSE SmallGraphInvocations

SystemTask(g, version) ==
    [namespace |-> "ns", compute_graph_name |-> g, graph_version |-> version,
     restart_key |-> None, num_running_invocations |-> 0,
     waiting_for_running_invocations |-> FALSE]

\* An invocation context: the graph version it ran or runs under, and whether it
\* is still running.
InvocationCtx(version, running) == [graph_version |-> version, running |-> running]

NoLocal ==
    [task |-> None, pending_tasks |-> 0, limit |-> 0, invocation_ids |-> <<>>,
     restart_key |-> None, all_queued |-> FALSE]

\* state.reader().get_system_tasks(Some(1)): the first system task, if any.
get_system_tasks_first(store) ==
    LET present == SeqFilterIn(GraphOrder, DOMAIN store)
    IN IF present = <<>> THEN None ELSE Some(store[Head(present)])

\* state.reader().get_system_task(namespace, graph)
get_system_task(store, g) == IF g \in DOMAIN store THEN Some(store[g]) ELSE None

\* state.reader().list_invocations(ns, graph, restart_key, Some(limit)): the ids
\* from the restart key on, at most limit of them, and the key of the first id
\* not returned, None when the listing is exhausted. Invocation i has key i.
list_invocations(invs, g, restart_key, limit) ==
    LET first == unwrap_or(restart_key, 1)
        n == Len(invs[g])
        last == IF first + limit - 1 < n THEN first + limit - 1 ELSE n
    IN [items |-> [k \in 1..(IF last >= first THEN last - first + 1 ELSE 0) |-> first + k - 1],
        restart_key |-> IF last < n THEN Some(last + 1) ELSE None]

\* list_limit that takes no account of the pending count.
list_limit_ignores_pending(pending_tasks) == MAX_PENDING_TASKS

\* list_limit that is one too large.
list_limit_one_more(pending_tasks) == MAX_PENDING_TASKS - pending_tasks + 1

\* The limit queue_invocations passes to list_invocations (system_tasks.rs:88).
list_limit(pending_tasks) == MAX_PENDING_TASKS - pending_tasks

\* max_pending_reached that never holds.
max_pending_reached_never(pending_tasks) == FALSE

\* The test of the pending count in run (system_tasks.rs:61).
max_pending_reached(pending_tasks) == pending_tasks >= MAX_PENDING_TASKS

\* all_queued that never reports the listing exhausted.
all_queued_never(restart_key) == FALSE

\* all_queued that reports the listing exhausted while a restart key is left.
all_queued_inverted(restart_key) == ~is_none(restart_key)

\* all_queued that reports the listing exhausted after every batch.
all_queued_always(restart_key) == TRUE

\* What queue_invocations returns (system_tasks.rs:108).
all_queued(restart_key) == is_none(restart_key)

\* The ReplayInvocations request of queue_invocations (system_tasks.rs:93-106).
ReplayInvocationsRequest(task, invocation_ids, restart_key) ==
    [kind |-> "ReplayInvocations", namespace |-> task.namespace,
     compute_graph_name |-> task.compute_graph_name, graph_version |-> task.graph_version,
     invocation_ids |-> invocation_ids, restart_key |-> restart_key,
     waiting_for_running_invocations |-> FALSE]

\* The RemoveSystemTask request of handle_completion (system_tasks.rs:120-130).
RemoveSystemTaskRequest(task) ==
    [kind |-> "RemoveSystemTask", namespace |-> task.namespace,
     compute_graph_name |-> task.compute_graph_name, graph_version |-> task.graph_version,
     invocation_ids |-> <<>>, restart_key |-> None,
     waiting_for_running_invocations |-> FALSE]

\* The UpdateSystemTask request of handle_completion (system_tasks.rs:138-149).
UpdateSystemTaskRequest(task) ==
    [kind |-> "UpdateSystemTask", namespace |-> task.namespace,
     compute_graph_name |-> task.compute_graph_name, graph_version |-> task.graph_version,
     invocation_ids |-> <<>>, restart_key |-> None,
     waiting_for_running_invocations |-> TRUE]

\* completion_step that does not look at the running invocations.
completion_step_ignores_running(task) == "write_remove"

\* completion_step that goes back to the write of queue_invocations.
completion_step_requeues(task) == "write_replay"

\* completion_step that tests the waiting flag before the running invocations.
completion_step_flag_first(task) ==
    IF ~task.waiting_for_running_invocations THEN "write_update"
    ELSE IF task.num_running_invocations = 0 THEN "write_remove"
    ELSE "select"

\* What handle_completion does with the task it read (system_tasks.rs:117-151):
\* the pc of the write it goes on to, or "select" when it writes nothing.
completion_step(task) ==
    IF task.num_running_invocations = 0 THEN "write_remove"
    ELSE IF ~task.waiting_for_running_invocations THEN "write_update"
    ELSE "select"

\* is_waiting that never sees the flag.
is_waiting_never(task) == FALSE

\* The test of the waiting flag in run (system_tasks.rs:54).
is_waiting(task) == task.waiting_for_running_invocations

\* The invocations of `ids` that a replay under `version` restarts: those whose
\* context is of an older graph version.
replayed_ids(invs, ids, version) ==
    {i \in Range(ids) : invs[i].graph_version < version}

\* The state store after a ReplayInvocations request: each restarted invocation runs
\* under the request's version and counts as a running invocation of the system
\* task and as a pending system task; the task's restart key is the request's.
apply_replay(req) ==
    LET g == req.compute_graph_name
        again == replayed_ids(invocations[g], req.invocation_ids, req.graph_version)
    IN /\ invocations' =
              [invocations EXCEPT ![g] =
                 [i \in 1..Len(@) |-> IF i \in again
                                      THEN InvocationCtx(req.graph_version, TRUE)
                                      ELSE @[i]]]
       /\ system_tasks' =
              [system_tasks EXCEPT ![g] =
                 [@ EXCEPT !.restart_key = req.restart_key,
                           !.num_running_invocations = @ + Cardinality(again)]]
       /\ pending_system_tasks' = pending_system_tasks + Cardinality(again)
       /\ carried' = [carried EXCEPT ![g] = @ \cup Range(req.invocation_ids)]

\* EndIteration that goes on to handle_completion when the iteration failed.
EndIteration_completes_on_error(result) ==
    /\ pc' = IF result = "err" THEN "completion" ELSE "select"
    /\ last_result' = result

\* EndIteration that leaves the loop when the iteration failed.
EndIteration_stops_on_error(result) ==
    /\ pc' = IF result = "err" THEN "stopped" ELSE "select"
    /\ last_result' = result

\* An iteration of run ends with `result`; start goes on to its select.
EndIteration(result) ==
    /\ pc' = "select"
    /\ last_result' = result

\* A state-store read or write fails.
Fails ==
    /\ failures < MaxFailures
    /\ failures' = failures + 1

\* run up to its first write (system_tasks.rs:45-66) and queue_invocations up to
\* its write (system_tasks.rs:84-92); all the reads are synchronous.
RunBegin ==
    /\ pc = "run"
    /\ emitted' = <<>>
    /\ UNCHANGED <<system_tasks, pending_system_tasks, invocations, changed, shutdown,
                   removals, carried>>
    /\ \/ /\ Fails
          /\ local' = NoLocal
          /\ EndIteration("err")
       \/ /\ UNCHANGED failures
          /\ LET first == get_system_tasks_first(system_tasks) IN
             IF first = None
             THEN local' = NoLocal /\ EndIteration("ok")
             ELSE LET task == first[1] IN
                  IF is_waiting(task)
                  THEN /\ local' = [NoLocal EXCEPT !.task = first]
                       /\ pc' = "completion"
                       /\ UNCHANGED last_result
                  ELSE LET pending_tasks == pending_system_tasks IN
                       IF max_pending_reached(pending_tasks)
                       THEN /\ local' = [NoLocal EXCEPT !.task = first,
                                                        !.pending_tasks = pending_tasks]
                            /\ EndIteration("ok")
                       ELSE LET limit == list_limit(pending_tasks)
                                listed == list_invocations(invocations, task.compute_graph_name,
                                                           task.restart_key, limit)
                            IN /\ local' = [task |-> first, pending_tasks |-> pending_tasks,
                                            limit |-> limit,
                                            invocation_ids |-> listed.items,
                                            restart_key |-> listed.restart_key,
                                            all_queued |-> FALSE]
                               /\ pc' = "write_replay"
                               /\ UNCHANGED last_result

\* The write of queue_invocations and its return to run (system_tasks.rs:93-108, 66-71).
WriteReplay ==
    /\ pc = "write_replay"
    /\ UNCHANGED <<shutdown, removals>>
    /\ \/ /\ Fails
          /\ EndIteration("err")
          /\ UNCHANGED <<system_tasks, pending_system_tasks, invocations, local, emitted,
                         changed, carried>>
       \/ /\ UNCHANGED failures
          /\ LET req == ReplayInvocationsRequest(local.task[1], local.invocation_ids,
                                                 local.restart_key)
             IN /\ apply_replay(req)
                /\ emitted' = Append(emitted, req)
                /\ changed' = TRUE
                /\ local' = [local EXCEPT !.all_queued = all_queued(local.restart_key)]
                /\ IF all_queued(local.restart_key)
                   THEN pc' = "completion" /\ UNCHANGED last_result
                   ELSE EndIteration("ok")

\* handle_completion up to its write (system_tasks.rs:111-137).
HandleCompletion ==
    /\ pc = "completion"
    /\ UNCHANGED <<system_tasks, pending_system_tasks, invocations, local, emitted,
                   changed, shutdown, removals, carried>>
    /\ \/ /\ Fails
          /\ EndIteration("err")
       \/ /\ UNCHANGED failures
          /\ LET read == get_system_task(system_tasks, local.task[1].compute_graph_name) IN
             IF read = None
             THEN EndIteration("ok")
             ELSE IF completion_step(read[1]) = "select"
                  THEN EndIteration("ok")
                  ELSE pc' = completion_step(read[1]) /\ UNCHANGED last_result

\* The RemoveSystemTask write of handle_completion (system_tasks.rs:120-130).
WriteRemove ==
    /\ pc = "write_remove"
    /\ UNCHANGED <<pending_system_tasks, invocations, local, shutdown, carried>>
    /\ \/ /\ Fails
          /\ EndIteration("err")
          /\ UNCHANGED <<system_tasks, emitted, changed, removals>>
       \/ /\ UNCHANGED failures
          /\ LET req == RemoveSystemTaskRequest(local.task[1])
                 g == req.compute_graph_name
             IN /\ system_tasks' = [k \in DOMAIN system_tasks \ {g} |-> system_tasks[k]]
                /\ emitted' = Append(emitted, req)
                /\ removals' = [removals EXCEPT ![g] = @ + 1]
          /\ changed' = TRUE
          /\ EndIteration("ok")

\* The UpdateSystemTask write of handle_completion (system_tasks.rs:138-149).
WriteUpdate ==
    /\ pc = "write_update"
    /\ UNCHANGED <<pending_system_tasks, invocations, local, shutdown, removals, carried>>
    /\ \/ /\ Fails
          /\ EndIteration("err")
          /\ UNCHANGED <<system_tasks, emitted, changed>>
       \/ /\ UNCHANGED failures
          /\ LET req == UpdateSystemTaskRequest(local.task[1])
                 g == req.compute_graph_name
             IN /\ system_tasks' =
                       [k \in DOMAIN system_tasks |->
                           IF k = g
                           THEN [system_tasks[k] EXCEPT
                                   !.waiting_for_running_invocations =
                                       req.waiting_for_running_invocations]
                           ELSE system_tasks[k]]
                /\ emitted' = Append(emitted, req)
          /\ changed' = TRUE
          /\ EndIteration("ok")

\* The select of start (system_tasks.rs:32-40): a change of the system tasks
\* starts the next iteration.
SelectChanged ==
    /\ pc = "select"
    /\ changed
    /\ changed' = FALSE
    /\ pc' = "run"
    /\ UNCHANGED <<system_tasks, pending_system_tasks, invocations, local, emitted,
                   last_result, shutdown, failures, removals, carried>>

\* SelectShutdown that starts the next iteration where it should leave the loop.
SelectShutdown_runs_again ==
    /\ pc = "select"
    /\ shutdown
    /\ pc' = "run"
    /\ UNCHANGED <<system_tasks, pending_system_tasks, invocations, local, emitted,
                   last_result, changed, shutdown, failures, removals, carried>>

\* The select of start (system_tasks.rs:36-39): shutdown ends the loop.
SelectShutdown ==
    /\ pc = "select"
    /\ shutdown
    /\ pc' = "stopped"
    /\ UNCHANGED <<system_tasks, pending_system_tasks, invocations, local, emitted,
                   last_result, changed, shutdown, failures, removals, carried>>

\* The state store signals the system-tasks watch.
SystemTasksChanged ==
    /\ ~changed
    /\ pc # "stopped"
    /\ changed' = TRUE
    /\ UNCHANGED <<system_tasks, pending_system_tasks, invocations, pc, local, emitted,
                   last_result, shutdown, failures, removals, carried>>

\* The server signals shutdown.
Shutdown ==
    /\ ~shutdown
    /\ shutdown' = TRUE
    /\ UNCHANGED <<system_tasks, pending_system_tasks, invocations, pc, local, emitted,
                   last_result, changed, failures, removals, carried>>

\* The oldest running invocation of graph g finishes: one pending system task and
\* one running invocation of the graph's system task less.
FinishInvocation(g) ==
    /\ \E i \in 1..Len(invocations[g]) : invocations[g][i].running
    /\ LET i == CHOOSE x \in 1..Len(invocations[g]) :
                    /\ invocations[g][x].running
                    /\ \A y \in 1..(x - 1) : ~invocations[g][y].running
       IN invocations' = [invocations EXCEPT ![g][i].running = FALSE]
    /\ pending_system_tasks' = pending_system_tasks - 1
    /\ system_tasks' =
           [k \in DOMAIN system_tasks |->
               IF k = g
               THEN [system_tasks[k] EXCEPT !.num_running_invocations = @ - 1]
               ELSE system_tasks[k]]
    /\ changed' = TRUE
    /\ UNCHANGED <<pc, local, emitted, last_result, shutdown, failures, removals, carried>>

\* Another writer removes the system task of graph g from the state store while
\* the driver is between its writes: handle_completion's read can find no task
\* (system_tasks.rs:111-116).
RemovedElsewhere(g) ==
    /\ pc \in {"completion", "select"}
    /\ g \in DOMAIN system_tasks
    /\ system_tasks' = [k \in DOMAIN system_tasks \ {g} |-> system_tasks[k]]
    /\ changed' = TRUE
    /\ UNCHANGED <<pending_system_tasks, invocations, pc, local, emitted, last_result,
                   shutdown, failures, removals, carried>>

\* A replay has been requested for each graph of `graphs`, g1 at `version` and
\* g2 at `version2`; every invocation has run to completion under version 1.
DriverInitWith(graphs, version, version2) ==
    /\ system_tasks = [g \in graphs |-> SystemTask(g, IF g = "g1" THEN version ELSE version2)]
    /\ pending_system_tasks = 0
    /\ invocations = [g \in GraphNames |->
                         [i \in 1..InvocationCount(g) |-> InvocationCtx(1, FALSE)]]
    /\ pc = "run"
    /\ local = NoLocal
    /\ emitted = <<>>
    /\ last_result = "none"
    /\ changed = FALSE
    /\ shutdown = FALSE
    /\ failures = 0
    /\ removals = [g \in graphs |-> 0]
    /\ carried = [g \in graphs |-> {}]

DriverInit ==
    \E graphs \in {{"g1"}, {"g1", "g2"}}, version \in {1, 2}, version2 \in {1, 2} :
       DriverInitWith(graphs, version, version2)

\* The driver's state while only the allocator runs.
DriverIdle == DriverInitWith({}, 1, 1)

\* ---------------------------------------------------------------- specifications

vars == <<alloc_vars, driver_vars>>

\* The allocator and its callers; the replay driver has nothing to do.
Init == AllocInit /\ DriverIdle

Next ==
    \/ \E id \in ExecutorIds, allowlist \in AllowlistChoices :
          RegisterExecutor(id, allowlist) /\ UNCHANGED driver_vars
    \/ \E shape \in TaskShapes : CreateTask(shape) /\ UNCHANGED driver_vars
    \/ \E id \in ExecutorIds : FinalizeTask(id) /\ UNCHANGED driver_vars
    \/ \E change \in Changes : Invoke(change) /\ UNCHANGED driver_vars
    \/ ApplyUpdate /\ UNCHANGED driver_vars

Spec == Init /\ [][Next]_vars

\* The allocator and callers that also use its other public functions: allocate
\* and schedule_tasks called directly, next to the calls of invoke.
DirectCalls ==
    \/ Allocate /\ UNCHANGED driver_vars
    \/ \E todo \in DirectTaskLists : ScheduleTasks(todo) /\ UNCHANGED driver_vars

DirectNext == Next \/ DirectCalls

\* Executor e1 has joined and holds no allocation; the tasks are those created
\* after the start.
DirectInit ==
    /\ \E allowlist \in InitialAllowlists : AllocInitWith(0, allowlist)
    /\ DriverIdle

DirectSpec == DirectInit /\ [][DirectNext]_vars

\* Single calls of invoke on inputs that need not be well formed, the
\* application of their updates, and the completion of running tasks.
PassSpecInit == PassInit /\ DriverIdle

PassNext ==
    \/ \E change \in Changes : Invoke(change) /\ UNCHANGED driver_vars
    \/ ApplyUpdate /\ UNCHANGED driver_vars
    \/ \E id \in ExecutorIds : FinalizeTask(id) /\ UNCHANGED driver_vars

PassSpec == PassSpecInit /\ [][PassNext]_vars

\* The replay driver, the state store and the invocations it replays; the
\* allocator has nothing to do.
DriverSpecInit == AllocIdle /\ DriverInit

DriverSteps ==
    \/ RunBegin /\ UNCHANGED alloc_vars
    \/ WriteReplay /\ UNCHANGED alloc_vars
    \/ HandleCompletion /\ UNCHANGED alloc_vars
    \/ WriteRemove /\ UNCHANGED alloc_vars
    \/ WriteUpdate /\ UNCHANGED alloc_vars
    \/ SelectChanged /\ UNCHANGED alloc_vars

DriverEnv ==
    \/ SystemTasksChanged /\ UNCHANGED alloc_vars
    \/ \E g \in GraphNames : FinishInvocation(g) /\ UNCHANGED alloc_vars

DriverStop ==
    \/ SelectShutdown /\ UNCHANGED alloc_vars
    \/ Shutdown /\ UNCHANGED alloc_vars

DriverNext == DriverSteps \/ DriverEnv \/ DriverStop

DriverSpec == DriverSpecInit /\ [][DriverNext]_vars

\* The replay driver next to another writer that removes system tasks.
DriverOthers ==
    \E g \in GraphNames : RemovedElsewhere(g) /\ UNCHANGED alloc_vars

DriverOthersNext == DriverSteps \/ DriverEnv \/ DriverStop \/ DriverOthers

DriverOthersSpec == DriverSpecInit /\ [][DriverOthersNext]_vars

\* The driver keeps being run and is not shut down: start's loop takes its steps,
\* the watch keeps being signalled, and running invocations finish.
DriverLiveNext == DriverSteps \/ DriverEnv

DriverLiveSpec ==
    /\ DriverSpecInit
    /\ [][DriverLiveNext]_vars
    /\ WF_vars(DriverSteps)
    /\ WF_vars(SystemTasksChanged /\ UNCHANGED alloc_vars)
    /\ WF_vars(\E g \in GraphNames : FinishInvocation(g) /\ UNCHANGED alloc_vars)

\* The driver under shutdown: start's loop takes its steps, and its select, which
\* picks at random among its ready branches (system_tasks.rs:32-40), does not
\* pass over a shutdown branch that is ready again and again.
DriverStopSpec ==
    /\ DriverSpecInit
    /\ [][DriverNext]_vars
    /\ WF_vars(DriverSteps)
    /\ SF_vars(SelectShutdown /\ UNCHANGED alloc_vars)

\* ---------------------------------------------------------------- allocator claims

\* The ids of the tasks some allocation of the index references.
AllocatedTasks ==
    UNION { {allocations_by_executor[e][i].task_id : i \in 1..Len(allocations_by_executor[e])} :
            e \in DOMAIN allocations_by_executor }

\* The update of the call in flight, if it returned one.
PendingUpdate ==
    IF request # None /\ request[1].result.ok THEN Some(request[1].result.value) ELSE None

\* C1 (Capacity): in every state reached by invoke calls and the application of
\* their updates, every executor has at most MAX_ALLOCATIONS_PER_EXECUTOR
\* allocations indexed under it, whichever executor the tie-break picks.
C1_Capacity ==
    \A e \in DOMAIN allocations_by_executor :
        Len(allocations_by_executor[e]) <= MAX_ALLOCATIONS_PER_EXECUTOR

\* A pass has filled executor e2 to the maximum and tasks are left unallocated.
C1_Witness ==
    /\ request = None
    /\ "e2" \in DOMAIN allocations_by_executor
    /\ Len(allocations_by_executor["e2"]) = MAX_ALLOCATIONS_PER_EXECUTOR
    /\ unallocated_tasks # {}

\* C2 (Exclusivity): in every reachable state each task is referenced by at most
\* one allocation, over all executors.
C2_Exclusivity ==
    \A e \in DOMAIN allocations_by_executor, f \in DOMAIN allocations_by_executor :
        \A i \in 1..Len(allocations_by_executor[e]), j \in 1..Len(allocations_by_executor[f]) :
            allocations_by_executor[e][i].task_id = allocations_by_executor[f][j].task_id
                => (e = f /\ i = j)

\* A task that ran on e1 was reclaimed by a tombstone and a later pass placed it on e2.
C2_Witness ==
    /\ request = None
    /\ "e1" \notin DOMAIN executors
    /\ "e2" \in DOMAIN allocations_by_executor
    /\ \E i \in 1..Len(allocations_by_executor["e2"]) :
          allocations_by_executor["e2"][i].task_id = 1

\* The call in flight is invoke(TombStoneExecutor{E}) and the step applies its update.
TombstoneApplied(E) ==
    /\ request # None
    /\ request[1].change = ChangeType("TombStoneExecutor", E)
    /\ request' = None

\* The tasks that have an allocation on executor E.
TasksOn(E) ==
    IF E \in DOMAIN allocations_by_executor
    THEN {allocations_by_executor[E][i].task_id : i \in 1..Len(allocations_by_executor[E])}
    ELSE {}

\* C3 (Reclamation): when the update of invoke(TombStoneExecutor{E}) is applied,
\* every task that had an allocation on E is Pending and in the unallocated index,
\* no allocation references E, and E is absent from the executors map.
C3_Reclamation ==
    [][\A E \in ExecutorIds :
          TombstoneApplied(E) =>
             /\ \A t \in TasksOn(E) :
                   /\ t \in DOMAIN tasks'
                   /\ tasks'[t].status = "Pending"
                   /\ t \in unallocated_tasks'
             /\ E \notin DOMAIN allocations_by_executor'
             /\ \A e \in DOMAIN allocations_by_executor' :
                   \A i \in 1..Len(allocations_by_executor'[e]) :
                      allocations_by_executor'[e][i].executor_id # E
             /\ E \notin DOMAIN executors']_vars

\* The tombstone of e1 has been applied while e1 held a full load: its tasks
\* are Pending and unallocated and e1 is gone.
C3_Witness ==
    /\ request = None
    /\ "e1" \notin DOMAIN executors
    /\ Cardinality({t \in unallocated_tasks : tasks[t].status = "Pending"})
           >= MAX_ALLOCATIONS_PER_EXECUTOR

\* The allowlist rule of the specification for allocation a on its executor:
\* no allowlist, or some entry names the task's function, graph and namespace and
\* has no version or the version of the task's compute graph version.
AllowlistAdmits(a) ==
    LET E == executors[a.executor_id]
        T == tasks[a.task_id]
        G == compute_graph_versions[<<T.namespace, T.compute_graph_name, T.graph_version>>]
    IN \/ E.function_allowlist = None
       \/ \E i \in 1..Len(E.function_allowlist[1]) :
             LET u == E.function_allowlist[1][i]
             IN /\ u.compute_fn_name = T.compute_fn_name
                /\ u.compute_graph_name = G.compute_graph_name
                /\ u.namespace = G.namespace
                /\ (u.version = None \/ u.version = Some(G.version))

\* C4 (Allowlist respect): every allocation an allocation pass returns is on an
\* executor of the map whose allowlist, if it has one, admits the task.
C4_AllowlistRespect ==
    PendingUpdate # None =>
        \A a \in Range(PendingUpdate[1].new_allocations) :
            /\ a.executor_id \in DOMAIN executors
            /\ AllowlistAdmits(a)

\* A pass placed a task on an executor whose allowlist has two entries, one of
\* which does not match the task.
C4_Witness ==
    /\ PendingUpdate # None
    /\ \E a \in Range(PendingUpdate[1].new_allocations) :
          /\ executors[a.executor_id].function_allowlist # None
          /\ Len(executors[a.executor_id].function_allowlist[1]) = 2

\* Every allocation of the index is for a task whose status is Running.
AllocationsRunning ==
    \A t \in AllocatedTasks : t \in DOMAIN tasks /\ tasks[t].status = "Running"

\* C10 (Allocation implies Running): an allocation exists only for a task whose
\* status is Running, and a task whose allocation is reclaimed (removed while its
\* outcome is not terminal) is Pending and in the unallocated index.
C10_AllocationImpliesRunning ==
    /\ AllocationsRunning
    /\ [][/\ AllocationsRunning'
          /\ \A t \in AllocatedTasks \ AllocatedTasks' :
                \/ is_terminal(tasks'[t].outcome)
                \/ (tasks'[t].status = "Pending" /\ t \in unallocated_tasks')]_vars

\* A pass has allocated a task it found in the unallocated index, and the tasks
\* of a tombstoned executor are back in the index.
C10_Witness ==
    /\ request = None
    /\ \E t \in ExtraTaskIds : t \in AllocatedTasks /\ tasks[t].status = "Running"
    /\ \E t \in unallocated_tasks : t \notin ExtraTaskIds /\ tasks[t].status = "Pending"

\* ---------------------------------------------------------------- claims on one call

\* The step is a call of invoke: it leaves its change and its result in `request`.
InvokeReturned == request = None /\ request' # None

\* C11 (Unsupported event): invoke with a change type other than ExecutorAdded,
\* ExecutorRemoved or TombStoneExecutor returns the error "unhandled change type",
\* no SchedulerUpdateRequest, and leaves tasks, allocations, the unallocated index
\* and the executors unchanged.
C11_UnsupportedEvent ==
    [][(InvokeReturned
        /\ request'[1].change.kind
              \notin {"ExecutorAdded", "ExecutorRemoved", "TombStoneExecutor"})
       => /\ request'[1].result = [ok |-> FALSE, value |-> "unhandled change type"]
          /\ UNCHANGED <<tasks, allocations_by_executor, unallocated_tasks, executors>>]_vars

\* invoke has returned the error for an InvokeComputeGraph change although an
\* executor without allowlist had capacity for the unallocated tasks.
C11_Witness ==
    /\ request # None
    /\ request[1].change.kind = "InvokeComputeGraph"
    /\ ~request[1].result.ok
    /\ unallocated_tasks # {}
    /\ \E e \in DOMAIN executors :
          /\ executors[e].function_allowlist = None
          /\ Len(allocations_by_executor[e]) = 0

\* The step is a call of invoke with an ExecutorAdded or ExecutorRemoved change.
PassReturned ==
    InvokeReturned /\ request'[1].change.kind \in {"ExecutorAdded", "ExecutorRemoved"}

\* C12 (ExecutorAdded and ExecutorRemoved): both run the allocation pass, so what
\* a call with one returns and does to the indexes, a call with the other on the same
\* indexes can return and do; the update has empty remove_executors and
\* remove_allocations, and ExecutorRemoved(E) leaves E in the map, keeps every
\* allocation of E and sets no task of E to Pending.
C12_AddedRemovedAlike ==
    [][PassReturned =>
         LET change == request'[1].change
             result == request'[1].result
             E == change.executor_id
             other == IF change.kind = "ExecutorAdded" THEN "ExecutorRemoved"
                      ELSE "ExecutorAdded"
         IN /\ result.ok
            /\ result.value.remove_executors = <<>>
            /\ result.value.remove_allocations = <<>>
            /\ executors' = executors
            /\ [indexes |-> Indexes', result |-> result]
                   \in invoke([kind |-> other, executor_id |-> E], Indexes)
            /\ change.kind = "ExecutorRemoved" =>
                  /\ E \in DOMAIN allocations_by_executor =>
                        /\ E \in DOMAIN allocations_by_executor'
                        /\ Len(allocations_by_executor'[E]) >= Len(allocations_by_executor[E])
                        /\ \A i \in 1..Len(allocations_by_executor[E]) :
                              allocations_by_executor'[E][i] = allocations_by_executor[E][i]
                  /\ \A t \in TasksOn(E) \cap DOMAIN tasks :
                        /\ tasks'[t] = tasks[t]
                        /\ \A i \in 1..Len(result.value.updated_tasks) :
                              result.value.updated_tasks[i].id # t]_vars

\* invoke(ExecutorRemoved{e1}) has returned: e1 keeps the allocations it had and
\* the pass has placed one more task on it.
C12_Witness ==
    /\ request # None
    /\ request[1].change = ChangeType("ExecutorRemoved", "e1")
    /\ request[1].result.ok
    /\ "e1" \in DOMAIN executors
    /\ Len(allocations_by_executor["e1"]) = MAX_ALLOCATIONS_PER_EXECUTOR
    /\ \E a \in Range(request[1].result.value.new_allocations) : a.executor_id = "e1"

\* The step is a call of invoke with a TombStoneExecutor change.
TombstoneReturned ==
    InvokeReturned /\ request'[1].change.kind = "TombStoneExecutor"

\* C13 (Tombstone delta content): invoke(TombStoneExecutor{E}) returns Ok with
\* new_allocations empty, remove_allocations exactly the allocations indexed
\* under E, updated_tasks exactly the tasks of those allocations found in the
\* task index, each with status Pending, and remove_executors = [E]; an
\* allocation without a task is still removed, and an executor without
\* allocations gives the empty update but for remove_executors.
C13_TombstoneDelta ==
    [][TombstoneReturned =>
         LET E == request'[1].change.executor_id
             result == request'[1].result
             indexed == IF E \in DOMAIN allocations_by_executor
                        THEN allocations_by_executor[E] ELSE <<>>
             found == SelectSeq(indexed, LAMBDA a : a.task_id \in DOMAIN tasks)
         IN /\ result.ok
            /\ result.value.new_allocations = <<>>
            /\ result.value.remove_allocations = indexed
            /\ result.value.updated_tasks =
                   [i \in 1..Len(found) |->
                       [tasks[found[i].task_id] EXCEPT !.status = "Pending"]]
            /\ result.value.remove_executors = <<E>>
            /\ indexed = <<>> =>
                   result.value = [new_allocations |-> <<>>, remove_allocations |-> <<>>,
                                   updated_tasks |-> <<>>, remove_executors |-> <<E>>]]_vars

\* invoke(TombStoneExecutor{e1}) has returned for a full executor whose first
\* allocation has no task in the index: the allocation is removed, the task-side
\* update is left out.
C13_Witness ==
    /\ request # None
    /\ request[1].change = ChangeType("TombStoneExecutor", "e1")
    /\ request[1].result.ok
    /\ Len(request[1].result.value.remove_allocations) = MAX_ALLOCATIONS_PER_EXECUTOR
    /\ Len(request[1].result.value.updated_tasks) = MAX_ALLOCATIONS_PER_EXECUTOR - 1
    /\ request[1].result.value.remove_allocations[1].task_id \notin DOMAIN tasks

\* No id of the unallocated index resolves to a task.
NothingResolves == \A id \in unallocated_tasks : id \notin DOMAIN tasks

\* Every executor of the map holds the maximum of allocations.
AllSaturated ==
    /\ DOMAIN executors # {}
    /\ \A e \in DOMAIN executors :
          /\ e \in DOMAIN allocations_by_executor
          /\ Len(allocations_by_executor[e]) = MAX_ALLOCATIONS_PER_EXECUTOR

\* C14 (Empty pass): when no unallocated id resolves to a task, or the executors
\* map is empty, or every executor holds MAX_ALLOCATIONS_PER_EXECUTOR allocations,
\* the allocation pass returns the empty update and leaves the unallocated index,
\* the tasks and the allocations unchanged.
C14_EmptyPass ==
    [][(PassReturned /\ (NothingResolves \/ DOMAIN executors = {} \/ AllSaturated))
       => /\ request'[1].result =
                [ok |-> TRUE,
                 value |-> [new_allocations |-> <<>>, remove_allocations |-> <<>>,
                            updated_tasks |-> <<>>, remove_executors |-> <<>>]]
          /\ UNCHANGED <<unallocated_tasks, tasks, allocations_by_executor>>]_vars

\* A pass has returned the empty update although a Pending task of function f,
\* version 1 is unallocated: both executors hold the maximum.
C14_Witness ==
    /\ request # None
    /\ request[1].change.kind \in {"ExecutorAdded", "ExecutorRemoved"}
    /\ request[1].result.ok
    /\ request[1].result.value.new_allocations = <<>>
    /\ DOMAIN executors = {"e1", "e2"}
    /\ AllSaturated
    /\ \E t \in unallocated_tasks \cap DOMAIN tasks :
          /\ tasks[t].outcome = "Unknown"
          /\ tasks[t].compute_fn_name = "f"
          /\ tasks[t].graph_version = 1

\* The allocations executor e holds when the pass that returns `new` reaches
\* task t: those it held before the pass and those the pass made for earlier tasks.
HeldWhenReached(e, t, new) ==
    (IF e \in DOMAIN allocations_by_executor THEN Len(allocations_by_executor[e]) ELSE 0)
    + Cardinality({i \in 1..Len(new) : new[i].executor_id = e /\ new[i].task_id < t})

\* C15 (Early termination on saturation): in one pass, when no executor holds
\* fewer than MAX_ALLOCATIONS_PER_EXECUTOR allocations as a non-terminal task is
\* reached, counting the allocations made earlier in the pass, neither that task
\* nor a later task of the unallocated index gets an allocation; the allocations
\* made before stay indexed.
C15_EarlyTermination ==
    [][PassReturned =>
         LET new == request'[1].result.value.new_allocations
         IN /\ \A t \in unallocated_tasks \cap DOMAIN tasks :
                  (/\ tasks[t].outcome \notin {"Success", "Failure"}
                   /\ \A e \in DOMAIN executors :
                         HeldWhenReached(e, t, new) >= MAX_ALLOCATIONS_PER_EXECUTOR)
                  => \A i \in 1..Len(new) : new[i].task_id < t
            /\ \A i \in 1..Len(new) :
                  /\ new[i].executor_id \in DOMAIN allocations_by_executor'
                  /\ new[i] \in Range(allocations_by_executor'[new[i].executor_id])]_vars

\* A pass has given executor e1 its last free slot and has left a later Pending
\* task, which e1 admits, without allocation.
C15_Witness ==
    /\ request # None
    /\ request[1].change.kind \in {"ExecutorAdded", "ExecutorRemoved"}
    /\ request[1].result.ok
    /\ Len(request[1].result.value.new_allocations) = 1
    /\ request[1].result.value.new_allocations[1].executor_id = "e1"
    /\ AllSaturated
    /\ executors["e1"].function_allowlist = None
    /\ \E t \in unallocated_tasks \cap DOMAIN tasks :
          /\ t > request[1].result.value.new_allocations[1].task_id
          /\ tasks[t].outcome = "Unknown"
          /\ tasks[t].compute_fn_name = "f"
          /\ tasks[t].graph_version = 1

\* The compute graph version of task t is not in the index, or the task's
\* function is not a node of it.
LookupFails(t) ==
    LET key == <<tasks[t].namespace, tasks[t].compute_graph_name, tasks[t].graph_version>>
    IN \/ key \notin DOMAIN compute_graph_versions
       \/ tasks[t].compute_fn_name \notin DOMAIN compute_graph_versions[key].nodes

\* C16 (Single-task failure isolation): a task whose compute graph version is
\* not in the index, or whose function is not a node of that version, is skipped:
\* it stays as it is in the task index and in the unallocated index and gets no
\* allocation; the pass goes on, so a later task that an executor below the
\* maximum admits is allocated; and invoke returns Ok.
C16_FailureIsolation ==
    [][PassReturned =>
         LET result == request'[1].result
             new == result.value.new_allocations
             failing == {t \in unallocated_tasks \cap DOMAIN tasks :
                            tasks[t].outcome \notin {"Success", "Failure"} /\ LookupFails(t)}
         IN /\ result.ok
            /\ \A t \in failing :
                  /\ t \in unallocated_tasks'
                  /\ tasks'[t] = tasks[t]
                  /\ \A i \in 1..Len(new) : new[i].task_id # t
                  /\ \A i \in 1..Len(result.value.updated_tasks) :
                        result.value.updated_tasks[i].id # t
                  /\ \A t2 \in unallocated_tasks \cap DOMAIN tasks :
                        (/\ t2 > t
                         /\ tasks[t2].outcome \notin {"Success", "Failure"}
                         /\ ~LookupFails(t2)
                         /\ \E e \in DOMAIN executors :
                               /\ HeldWhenReached(e, t2, new) < MAX_ALLOCATIONS_PER_EXECUTOR
                               /\ AllowlistAdmits([executor_id |-> e, task_id |-> t2]))
                        => \E i \in 1..Len(new) : new[i].task_id = t2]_vars

\* A pass has skipped a task whose graph version is not in the index and has
\* allocated the task after it.
C16_Witness ==
    /\ request # None
    /\ request[1].change.kind \in {"ExecutorAdded", "ExecutorRemoved"}
    /\ request[1].result.ok
    /\ \E t \in unallocated_tasks \cap DOMAIN tasks :
          /\ tasks[t].graph_version = 3
          /\ tasks[t].status = "Pending"
          /\ \E a \in Range(request[1].result.value.new_allocations) : a.task_id > t

\* The tasks of the index whose outcome is terminal.
TerminalTasks == {t \in DOMAIN tasks : tasks[t].outcome \in {"Success", "Failure"}}

\* No task of the unallocated index has a terminal outcome.
NoTerminalUnallocated == unallocated_tasks \cap TerminalTasks = {}

\* C17 (Terminal tasks): an allocation pass gives no allocation to a task whose
\* outcome is terminal and does not return it in updated_tasks, even when the
\* task is in the unallocated index; and no step of the allocator, of the
\* application of its updates or of the completion of a task brings a terminal
\* task into the unallocated index: when the index holds none before a step it
\* holds none after.
C17_TerminalTasks ==
    [][/\ PassReturned =>
             \A t \in TerminalTasks :
                /\ \A i \in 1..Len(request'[1].result.value.new_allocations) :
                      request'[1].result.value.new_allocations[i].task_id # t
                /\ \A i \in 1..Len(request'[1].result.value.updated_tasks) :
                      request'[1].result.value.updated_tasks[i].id # t
       /\ NoTerminalUnallocated => NoTerminalUnallocated']_vars

\* A pass has left a terminal task in the unallocated index and has placed the
\* task after it on an executor without allowlist that still has room.
C17_Witness ==
    /\ request # None
    /\ request[1].change.kind \in {"ExecutorAdded", "ExecutorRemoved"}
    /\ request[1].result.ok
    /\ \E t \in unallocated_tasks \cap TerminalTasks :
          \E a \in Range(request[1].result.value.new_allocations) :
             /\ a.task_id > t
             /\ executors[a.executor_id].function_allowlist = None
             /\ Len(allocations_by_executor[a.executor_id]) < MAX_ALLOCATIONS_PER_EXECUTOR

\* The rule of the specification: executor ex is eligible for node n of graph
\* version G iff it declares no allowlist or some entry u has u.fn = n's name,
\* u.graph = G's name, u.namespace = G's namespace and no version or G's version.
Eligible(ex, G, n) ==
    \/ ex.function_allowlist = <<>>
    \/ \E u \in Range(ex.function_allowlist[1]) :
          /\ u.compute_fn_name = n.name
          /\ u.compute_graph_name = G.compute_graph_name
          /\ u.namespace = G.namespace
          /\ (u.version = <<>> \/ u.version = <<G.version>>)

\* The lists of executors filter_executors is applied to: the executors of the
\* map, in every order and every selection.
ExecutorLists ==
    { executors_of(Indexes, order) :
        order \in {<<>>, <<"e1">>, <<"e2">>, <<"e1", "e2">>, <<"e2", "e1">>} }

\* C18 (filter_executors result): for every graph version and node of the index
\* and every list of executors, filter_executors returns exactly the eligible
\* executors of the list, in the order of the list and each once; an executor
\* with an empty allowlist is not among them, and one with a matching entry is,
\* whatever the versions of its other entries.
C18_FilterExecutors ==
    \A key \in DOMAIN compute_graph_versions :
       LET G == compute_graph_versions[key] IN
       \A name \in DOMAIN G.nodes, execs \in ExecutorLists :
          LET filtered == filter_executors(G, G.nodes[name], execs)
              eligible == SelectSeq(execs, LAMBDA ex : Eligible(ex, G, G.nodes[name]))
          IN /\ filtered = [i \in 1..Len(eligible) |-> eligible[i].id]
             /\ \A i, j \in 1..Len(filtered) : filtered[i] = filtered[j] => i = j
             /\ \A i \in 1..Len(execs) :
                   execs[i].function_allowlist = <<<<>>>> => execs[i].id \notin Range(filtered)

\* A pass has placed a task of f at version 1 on executor e1, whose allowlist has
\* f at version 2 before f at version 1, next to an executor without allowlist.
C18_Witness ==
    /\ request # None
    /\ request[1].result.ok
    /\ DOMAIN executors = {"e1", "e2"}
    /\ executors["e1"].function_allowlist =
           <<(<<FunctionURI("ns", "g", "f", <<2>>), FunctionURI("ns", "g", "f", <<1>>)>>)>>
    /\ executors["e2"].function_allowlist = <<>>
    /\ \E a \in Range(request[1].result.value.new_allocations) : a.executor_id = "e1"

\* C19 (Effects of a successful allocation): a pass returns as many updated
\* tasks as new allocations, the i-th updated task being the task of the i-th
\* allocation with status Running; that task was in the unallocated index and is
\* no longer, and the task index holds it as returned; each executor's
\* allocations are those it had followed by the new ones on it, in order, each
\* made while the executor, the earlier allocations of the pass counted, held
\* fewer than MAX_ALLOCATIONS_PER_EXECUTOR; nothing else changes.
C19_AllocationEffects ==
    [][PassReturned =>
         LET new == request'[1].result.value.new_allocations
             updated == request'[1].result.value.updated_tasks
             ids == {new[i].task_id : i \in 1..Len(new)}
         IN /\ Len(updated) = Len(new)
            /\ \A i \in 1..Len(new) :
                  LET id == new[i].task_id IN
                  /\ id \in unallocated_tasks \cap DOMAIN tasks
                  /\ updated[i] = [tasks[id] EXCEPT !.status = "Running"]
                  /\ tasks'[id] = updated[i]
                  /\ id \notin unallocated_tasks'
                  /\ HeldWhenReached(new[i].executor_id, id, new) < MAX_ALLOCATIONS_PER_EXECUTOR
            /\ unallocated_tasks' = unallocated_tasks \ ids
            /\ DOMAIN tasks' = DOMAIN tasks
            /\ \A t \in DOMAIN tasks \ ids : tasks'[t] = tasks[t]
            /\ \A e \in DOMAIN allocations_by_executor' :
                  allocations_by_executor'[e] =
                     (IF e \in DOMAIN allocations_by_executor
                      THEN allocations_by_executor[e] ELSE <<>>)
                     \o SelectSeq(new, LAMBDA a : a.executor_id = e)
            /\ DOMAIN allocations_by_executor \subseteq DOMAIN allocations_by_executor']_vars

\* A pass has placed two tasks on the same executor after the allocations it
\* already held, and the unallocated index is empty.
C19_Witness ==
    /\ request # None
    /\ request[1].change.kind \in {"ExecutorAdded", "ExecutorRemoved"}
    /\ request[1].result.ok
    /\ Len(request[1].result.value.new_allocations) >= 2
    /\ request[1].result.value.new_allocations[1].executor_id
           = request[1].result.value.new_allocations[2].executor_id
    /\ Len(allocations_by_executor[request[1].result.value.new_allocations[1].executor_id])
           > Len(request[1].result.value.new_allocations)
    /\ unallocated_tasks = {}

\* Executor e is in the filtered set when the pass that returns `new` reaches
\* task t: it is in the map, below the maximum, and its allowlist admits t.
InFilteredSet(e, t, new) ==
    /\ e \in DOMAIN executors
    /\ HeldWhenReached(e, t, new) < MAX_ALLOCATIONS_PER_EXECUTOR
    /\ AllowlistAdmits([executor_id |-> e, task_id |-> t])

\* C20 (Executor choice): the executor of every new allocation is in the
\* filtered set when the allocation is made; every other member of that set is
\* a possible choice: the same call can make the same allocations before it and
\* place the task on that member; and a task whose filtered set is empty gets
\* no allocation while the call returns Ok.
C20_ExecutorChoice ==
    [][PassReturned =>
         LET change == request'[1].change
             result == request'[1].result
             new == result.value.new_allocations
             possible == {o.result.value.new_allocations : o \in invoke(change, Indexes)}
         IN /\ result.ok
            /\ \A i \in 1..Len(new) :
                  /\ InFilteredSet(new[i].executor_id, new[i].task_id, new)
                  /\ \A e \in ExecutorIds :
                        InFilteredSet(e, new[i].task_id, new) =>
                           \E other \in possible :
                                 /\ Len(other) >= i
                                 /\ \A j \in 1..(i - 1) : other[j] = new[j]
                                 /\ other[i].task_id = new[i].task_id
                                 /\ other[i].executor_id = e
            /\ \A t \in unallocated_tasks \cap DOMAIN tasks :
                  (/\ tasks[t].outcome \notin {"Success", "Failure"}
                   /\ ~LookupFails(t)
                   /\ \A e \in ExecutorIds : ~InFilteredSet(e, t, new))
                  => \A i \in 1..Len(new) : new[i].task_id # t]_vars

\* With executor e1 allowlisting f at version 1 and executor e2 without
\* allowlist, one pass has placed a task of f at version 1 on e1 and another on e2.
C20_Witness ==
    /\ request # None
    /\ request[1].result.ok
    /\ DOMAIN executors = {"e1", "e2"}
    /\ executors["e1"].function_allowlist =
           <<(<<FunctionURI("other", "g", "f", <<1>>), FunctionURI("ns", "g", "f", <<1>>)>>)>>
    /\ executors["e2"].function_allowlist = <<>>
    /\ \E a, b \in Range(request[1].result.value.new_allocations) :
          /\ a.executor_id = "e1" /\ b.executor_id = "e2"
          /\ tasks[a.task_id].graph_version = 1 /\ tasks[b.task_id].graph_version = 1
          /\ a.compute_fn = "f" /\ b.compute_fn = "f"

\* ---------------------------------------------------------------- driver claims

\* The ReplayInvocations requests the iteration has written.
EmittedReplays == {r \in Range(emitted) : r.kind = "ReplayInvocations"}

\* C5 (Backpressure per iteration): the pending count read in an iteration plus
\* the invocation ids of the ReplayInvocations request it emits is at most
\* MAX_PENDING_TASKS, and the list limit, computed only below the maximum, is
\* MAX_PENDING_TASKS - p, between 1 and MAX_PENDING_TASKS.
C5_BackpressurePerIteration ==
    /\ pc = "write_replay" =>
          /\ local.pending_tasks < MAX_PENDING_TASKS
          /\ local.limit = MAX_PENDING_TASKS - local.pending_tasks
          /\ local.limit \in 1..MAX_PENDING_TASKS
    /\ \A r \in EmittedReplays :
          /\ local.pending_tasks + Len(r.invocation_ids) <= MAX_PENDING_TASKS
          /\ local.limit \in 1..MAX_PENDING_TASKS

\* An iteration read a pending count above 0 and emitted a batch that fills the
\* room left exactly.
C5_Witness ==
    \E r \in EmittedReplays :
        /\ local.pending_tasks > 0
        /\ r.invocation_ids # <<>>
        /\ local.pending_tasks + Len(r.invocation_ids) = MAX_PENDING_TASKS

\* C6 (Flow control under interleaving): with more invocations to replay than
\* MAX_PENDING_TASKS and invocations finishing at any point of an iteration, the
\* pending-system-task count never exceeds MAX_PENDING_TASKS.
C6_FlowControl == pending_system_tasks <= MAX_PENDING_TASKS

\* An invocation finished between the driver's read of the pending count and its
\* ReplayInvocations write, which carries a batch computed from the count read.
C6_Witness ==
    /\ pc = "write_replay"
    /\ local.invocation_ids # <<>>
    /\ local.pending_tasks > 0
    /\ pending_system_tasks < local.pending_tasks

\* C7 (Termination of replay): if the driver keeps being run and the replayed
\* invocations finish, RemoveSystemTask is eventually written for every system
\* task, and it is written once.
C7_Termination ==
    \A g \in GraphNames :
        /\ [](g \in DOMAIN removals => removals[g] <= 1)
        /\ (g \in DOMAIN removals)
              ~> (g \in DOMAIN removals /\ removals[g] = 1 /\ g \notin DOMAIN system_tasks)

\* The system task of g1 has been removed after its invocations were replayed
\* under version 2 in more than one batch.
C7_Witness ==
    /\ removals["g1"] = 1
    /\ "g1" \notin DOMAIN system_tasks
    /\ \A i \in 1..Len(invocations["g1"]) :
          invocations["g1"][i] = InvocationCtx(2, FALSE)

\* The step removes the system task of graph g.
Removed(g) == g \in DOMAIN system_tasks /\ g \notin DOMAIN system_tasks'

\* The step writes a request about graph g.
Written(g) ==
    /\ emitted' # emitted
    /\ emitted' # <<>>
    /\ emitted'[Len(emitted')].compute_graph_name = g

\* The waiting flag of g's system task is not reset, and once the task is removed
\* it stays removed and the driver writes no request about it.
FlagAndRemovalStable(g) ==
    /\ (/\ g \in DOMAIN system_tasks
        /\ g \in DOMAIN system_tasks'
        /\ system_tasks[g].waiting_for_running_invocations)
          => system_tasks'[g].waiting_for_running_invocations
    /\ g \notin DOMAIN system_tasks
          => (g \notin DOMAIN system_tasks' /\ ~Written(g))

\* C8 as claimed (System-task lifecycle): a system task is active, then waiting,
\* then removed: it is removed only from the waiting state, the waiting flag is
\* never reset, and a removed task is never written again by the driver.
C8_Original ==
    [][\A g \in GraphNames :
          /\ Removed(g) => system_tasks[g].waiting_for_running_invocations
          /\ FlagAndRemovalStable(g)]_vars

\* C8 as amended: a system task is removed from the waiting state, or directly
\* from the active state by the iteration whose ReplayInvocations request
\* exhausted the listing (restart key none) when the task has no running
\* invocation; the waiting flag is never reset, and a removed task is never
\* written again by the driver.
C8_Lifecycle ==
    [][\A g \in GraphNames :
          /\ Removed(g) =>
                \/ system_tasks[g].waiting_for_running_invocations
                \/ /\ \E r \in EmittedReplays :
                         r.compute_graph_name = g /\ r.restart_key = None
                   /\ system_tasks[g].num_running_invocations = 0
          /\ FlagAndRemovalStable(g)]_vars

\* A task has been removed from the waiting state, and another directly from the
\* active state.
C8_Witness ==
    /\ DOMAIN removals = {"g1", "g2"}
    /\ removals["g1"] = 1
    /\ removals["g2"] = 1
    /\ emitted # <<>>
    /\ emitted[1].kind = "ReplayInvocations"
    /\ emitted[Len(emitted)].kind = "RemoveSystemTask"
    /\ invocations["g1"][1] = InvocationCtx(2, FALSE)

\* All the invocation ids of graph g.
AllInvocations(g) == 1..InvocationCount(g)

\* C9 (Replay completeness before removal): a system task is removed only after
\* every invocation of its graph has been carried by a ReplayInvocations request
\* of the task and none of them is running, each being of the task's graph
\* version; a task with invocations left to queue still exists.
C9_CompleteBeforeRemoval ==
    [][\A g \in DOMAIN carried :
          /\ Removed(g) =>
                /\ carried[g] = AllInvocations(g)
                /\ system_tasks[g].num_running_invocations = 0
                /\ \A i \in AllInvocations(g) :
                      /\ ~invocations[g][i].running
                      /\ invocations[g][i].graph_version = system_tasks[g].graph_version
          /\ carried'[g] # AllInvocations(g) => g \in DOMAIN system_tasks']_vars

\* The system task of g1 was removed after waiting for its running invocations.
C9_Witness ==
    /\ removals["g1"] = 1
    /\ carried["g1"] = AllInvocations("g1")
    /\ emitted # <<>>
    /\ emitted[1].kind = "RemoveSystemTask"
    /\ emitted[1].compute_graph_name = "g1"
    /\ invocations["g1"][InvocationCount("g1")] = InvocationCtx(2, FALSE)

\* The step writes a request of kind `kind` for graph g.
Writes(kind, g) ==
    /\ Len(emitted') = Len(emitted) + 1
    /\ emitted'[Len(emitted')].kind = kind
    /\ emitted'[Len(emitted')].compute_graph_name = g

\* C21 (No batches after waiting): an iteration that read its system task with
\* waiting_for_running_invocations = true writes no ReplayInvocations request and
\* goes to handle_completion only; and no ReplayInvocations request is written
\* for a task whose flag is set.
C21_NoBatchesAfterWaiting ==
    [][/\ (local'.task # None /\ local'.task[1].waiting_for_running_invocations) =>
             /\ pc' \in {"completion", "write_remove", "write_update", "select", "stopped", "run"}
             /\ local'.invocation_ids = <<>>
             /\ \A i \in 1..Len(emitted') : emitted'[i].kind # "ReplayInvocations"
       /\ \A g \in GraphNames :
             Writes("ReplayInvocations", g) =>
                /\ g \in DOMAIN system_tasks
                /\ ~system_tasks[g].waiting_for_running_invocations]_vars

\* An iteration has found its system task waiting with invocations still
\* running, has written nothing, and is in handle_completion.
C21_Witness ==
    /\ pc = "completion"
    /\ local.task # None
    /\ local.task[1].waiting_for_running_invocations
    /\ emitted = <<>>
    /\ local.task[1].num_running_invocations > 0

\* The system task run is about to read: the first one, if any.
FirstTask == get_system_tasks_first(system_tasks)

\* C22 (Pure backpressure): an iteration that finds its task not waiting and the
\* pending count at MAX_PENDING_TASKS or above ends at once without an error: it
\* writes no request, and the system tasks, the restart key included, the
\* invocations and the pending count are unchanged.
C22_PureBackpressure ==
    [][(/\ pc = "run" /\ pc' # "run"
        /\ failures' = failures
        /\ FirstTask # None
        /\ ~FirstTask[1].waiting_for_running_invocations
        /\ pending_system_tasks >= MAX_PENDING_TASKS)
       => /\ pc' = "select"
          /\ last_result' = "ok"
          /\ emitted' = <<>>
          /\ UNCHANGED <<system_tasks, pending_system_tasks, invocations, carried, removals>>]_vars

\* An iteration has ended without a write for a task that has a restart key,
\* having read MAX_PENDING_TASKS pending system tasks.
C22_Witness ==
    /\ pc = "select"
    /\ last_result = "ok"
    /\ emitted = <<>>
    /\ local.task # None
    /\ ~local.task[1].waiting_for_running_invocations
    /\ local.task[1].restart_key # None
    /\ local.pending_tasks = MAX_PENDING_TASKS
    /\ local.invocation_ids = <<>>

\* C23 (One task, one batch per iteration): an iteration works on the first
\* system task get_system_tasks returns, and on no other: every request it writes
\* is for that task; it writes at most one ReplayInvocations request, and a
\* RemoveSystemTask or UpdateSystemTask request only after it, at most one of
\* them; with no system task it writes nothing and ends.
C23_OneTaskOneBatch ==
    [][/\ (pc = "run" /\ pc' # "run" /\ failures' = failures) =>
             /\ local'.task = FirstTask
             /\ FirstTask = None =>
                   (pc' = "select" /\ last_result' = "ok" /\ emitted' = <<>>)
       /\ local'.task = None => emitted' = <<>>
       /\ Len(emitted') <= 2
       /\ \A i \in 1..Len(emitted') :
             /\ emitted'[i].compute_graph_name = local'.task[1].compute_graph_name
             /\ emitted'[i].kind = "ReplayInvocations" => i = 1
             /\ i = 2 => emitted'[1].kind = "ReplayInvocations"
       /\ UNCHANGED local \/ pc \in {"run", "write_replay"}]_vars

\* With two system tasks in the store, an iteration has written the last batch
\* of the first one and then its UpdateSystemTask; nothing was written for the
\* second one.
C23_Witness ==
    /\ pc = "select"
    /\ DOMAIN system_tasks = {"g1", "g2"}
    /\ Len(emitted) = 2
    /\ emitted[1].kind = "ReplayInvocations"
    /\ emitted[1].compute_graph_name = "g1"
    /\ emitted[2].kind = "UpdateSystemTask"
    /\ carried["g2"] = {}

\* C24 (Exhaustion detection): queue_invocations returns true iff the restart
\* key list_invocations returned is none, and run goes on to handle_completion in
\* the same iteration iff it returned true, ending the iteration otherwise; when
\* handle_completion then reads no running invocation, the iteration writes
\* RemoveSystemTask after its ReplayInvocations and the task no longer exists.
C24_ExhaustionDetection ==
    [][\A g \in GraphNames :
          /\ Writes("ReplayInvocations", g) =>
                LET exhausted == emitted'[Len(emitted')].restart_key = <<>>
                IN /\ local'.all_queued = exhausted
                   /\ exhausted => pc' = "completion"
                   /\ ~exhausted => (pc' = "select" /\ last_result' = "ok")
          /\ (/\ pc = "completion" /\ pc' # "completion" /\ failures' = failures
               /\ emitted # <<>>
               /\ emitted[1].compute_graph_name = g
               /\ g \in DOMAIN system_tasks
               /\ system_tasks[g].num_running_invocations = 0)
             => pc' = "write_remove"
          /\ Writes("RemoveSystemTask", g) =>
                /\ g \notin DOMAIN system_tasks'
                /\ pc' = "select" /\ last_result' = "ok"
                /\ Len(emitted) = 1 =>
                      (emitted[1].kind = "ReplayInvocations" /\ emitted[1].restart_key = <<>>)]_vars

\* The replay of g2 under its unchanged graph version: the first batch carried
\* every invocation, none runs, and the same iteration has removed the task.
C24_Witness ==
    /\ pc = "select"
    /\ Len(emitted) = 2
    /\ emitted[1].kind = "ReplayInvocations"
    /\ emitted[1].compute_graph_name = "g2"
    /\ emitted[1].graph_version = 1
    /\ Len(emitted[1].invocation_ids) = InvocationCount("g2")
    /\ emitted[2].kind = "RemoveSystemTask"
    /\ "g2" \notin DOMAIN system_tasks
    /\ \A i \in 1..InvocationCount("g2") : invocations["g2"][i] = InvocationCtx(1, FALSE)

\* C25 (handle_completion cases): handle_completion reads the system task again
\* and goes by what it reads: with no running invocation it writes
\* RemoveSystemTask; with running invocations and the flag false it writes
\* UpdateSystemTask with the flag true; with running invocations and the flag
\* true it writes nothing and changes nothing; and when the task no longer
\* exists it writes nothing and returns Ok.
C25_HandleCompletionCases ==
    [][/\ (pc = "completion" /\ pc' # "completion" /\ failures' = failures) =>
             LET g == local.task[1].compute_graph_name
                 nothing == /\ pc' = "select" /\ last_result' = "ok"
                            /\ emitted' = emitted /\ system_tasks' = system_tasks
             IN IF g \notin DOMAIN system_tasks THEN nothing
                ELSE IF system_tasks[g].num_running_invocations = 0
                     THEN pc' = "write_remove"
                ELSE IF system_tasks[g].waiting_for_running_invocations = FALSE
                     THEN pc' = "write_update"
                ELSE nothing
       /\ (pc = "write_remove" /\ pc' # "write_remove" /\ failures' = failures) =>
             /\ Writes("RemoveSystemTask", local.task[1].compute_graph_name)
             /\ local.task[1].compute_graph_name \notin DOMAIN system_tasks'
       /\ (pc = "write_update" /\ pc' # "write_update" /\ failures' = failures) =>
             LET g == local.task[1].compute_graph_name
             IN /\ Writes("UpdateSystemTask", g)
                /\ emitted'[Len(emitted')].waiting_for_running_invocations = TRUE
                /\ g \in DOMAIN system_tasks =>
                      system_tasks' = [system_tasks EXCEPT
                                         ![g].waiting_for_running_invocations = TRUE]]_vars

\* An iteration has written the last batch of g1, has found no system task in
\* handle_completion, and has ended without an error and without a second write.
C25_Witness ==
    /\ pc = "select"
    /\ last_result = "ok"
    /\ Len(emitted) = 1
    /\ emitted[1].kind = "ReplayInvocations"
    /\ emitted[1].compute_graph_name = "g1"
    /\ emitted[1].restart_key = <<>>
    /\ "g1" \notin DOMAIN system_tasks
    /\ removals["g1"] = 0

\* C26 (Self-healing loop): start begins with an iteration, before it waits for
\* a signal; a failed state-store read or write ends the iteration with an error
\* and leaves the loop at its select, not stopped; and from there the next
\* system-tasks-changed signal starts another iteration.
C26_SelfHealingLoop ==
    /\ (pc = "run" /\ ~changed /\ last_result = "none")
    /\ [][/\ failures' # failures => (pc' = "select" /\ last_result' = "err")
          /\ pc' = "stopped" => pc = "stopped" \/ (pc = "select" /\ shutdown)
          /\ (pc = "select" /\ pc' = "run") => changed]_vars
    /\ ((pc = "select" /\ last_result = "err") ~> (pc = "run" /\ last_result = "err"))

\* After an iteration that failed at the write of its batch, a signal has
\* started the next iteration.
C26_Witness ==
    /\ pc = "run"
    /\ last_result = "err"
    /\ failures = 1
    /\ emitted = <<>>
    /\ local.invocation_ids # <<>>

\* C27 as stated (Shutdown): once the shutdown watch is signalled, the loop
\* terminates at its next awaitable boundary: at its select, with shutdown
\* signalled, the loop's next step is to stop, and no new iteration begins.
C27_Original ==
    [][(pc = "select" /\ shutdown /\ pc' # pc) => pc' = "stopped"]_vars

\* C27 as amended (Shutdown): the loop stops only at its select with shutdown
\* signalled, and then begins no iteration and writes nothing more; after the
\* signal an iteration begins only while a system-tasks-changed signal is also
\* pending; and once shutdown is signalled the loop stops eventually.
C27_Shutdown ==
    /\ [][/\ (pc' = "stopped" /\ pc # "stopped") =>
                 /\ pc = "select" /\ shutdown
                 /\ UNCHANGED <<system_tasks, emitted, local, last_result, removals, carried>>
          /\ pc = "stopped" =>
                 /\ pc' = "stopped"
                 /\ UNCHANGED <<emitted, local, last_result, removals, carried, failures>>
          /\ (shutdown /\ pc = "select" /\ pc' = "run") => changed]_vars
    /\ (shutdown ~> pc = "stopped")

\* The loop has stopped after an iteration that wrote a request, with a
\* system-tasks-changed signal still pending.
C27_Witness ==
    /\ pc = "stopped"
    /\ shutdown
    /\ changed
    /\ emitted # <<>>

\* A read of run or queue_invocations, or the ReplayInvocations write, fails.
BatchFails == pc \in {"run", "write_replay"} /\ failures' # failures

\* The iteration before this one failed at its ReplayInvocations write: its
\* locals, which only run assigns, are those of a listing that was not written.
RetryOfFailedWrite ==
    /\ pc = "run"
    /\ last_result = "err"
    /\ local.limit > 0
    /\ ~local.all_queued

\* C28 (Retry after a failed batch): when list_invocations or the
\* ReplayInvocations write fails, the iteration ends with an error at the select,
\* with no handle_completion, no second attempt and no request written, and the
\* system tasks, restart keys included, are as before; the iteration after a
\* failed write lists the same task from the same restart key.
C28_RetryAfterFailedBatch ==
    [][/\ BatchFails =>
             /\ pc' = "select"
             /\ last_result' = "err"
             /\ emitted' = IF pc = "run" THEN <<>> ELSE emitted
             /\ UNCHANGED <<system_tasks, pending_system_tasks, invocations, carried>>
       /\ (RetryOfFailedWrite /\ pc' # pc /\ failures' = failures) =>
             /\ pc' = "write_replay"
             /\ local'.task[1].compute_graph_name = local.task[1].compute_graph_name
             /\ local'.task[1].restart_key = local.task[1].restart_key
             /\ local'.invocation_ids # <<>>
             /\ local'.invocation_ids[1] = local.invocation_ids[1]]_vars

\* After a failed write of the second batch, the next iteration has listed again
\* from the restart key the first batch left.
C28_Witness ==
    /\ pc = "write_replay"
    /\ last_result = "err"
    /\ failures = 1
    /\ local.task[1].restart_key # None
    /\ local.invocation_ids[1] = local.task[1].restart_key[1]
    /\ system_tasks[local.task[1].compute_graph_name].restart_key = local.task[1].restart_key

\* C29 (No duplicate replay): over the life of a system task each invocation id
\* is carried by at most one written ReplayInvocations request: a request that is
\* written carries none of the ids the task's earlier requests carried, also
\* after a failure of handle_completion that follows the final batch.
C29_NoDuplicateReplay ==
    [][\A g \in DOMAIN carried :
          Writes("ReplayInvocations", g) =>
             Range(emitted'[Len(emitted')].invocation_ids) \cap carried[g] = {}]_vars

\* The allocations executor e holds.
Held(e) ==
    IF e \in DOMAIN allocations_by_executor THEN Len(allocations_by_executor[e]) ELSE 0

\* The tasks a pass can place: in the unallocated index and in the task index,
\* not terminal, with a graph version and a node the indexes resolve.
Allocatable ==
    {t \in unallocated_tasks \cap DOMAIN tasks :
        tasks[t].outcome \notin {"Success", "Failure"} /\ ~LookupFails(t)}

\* Task t is allocatable and executor e, below the maximum, admits it.
Placeable(t, e) ==
    /\ t \in Allocatable
    /\ e \in DOMAIN executors
    /\ Held(e) < MAX_ALLOCATIONS_PER_EXECUTOR
    /\ AllowlistAdmits([executor_id |-> e, task_id |-> t])

RECURSIVE FreeCapacity(_)
\* The allocations the executors of E can take before each is at the maximum.
FreeCapacity(E) ==
    IF E = {} THEN 0
    ELSE LET e == CHOOSE x \in E : TRUE
             free == MAX_ALLOCATIONS_PER_EXECUTOR - Held(e)
         IN (IF free > 0 THEN free ELSE 0) + FreeCapacity(E \ {e})

\* C30 (Maximality of a pass): when an allocation pass returns, no allocatable
\* task of the unallocated index is left next to an executor that holds fewer
\* than MAX_ALLOCATIONS_PER_EXECUTOR allocations and admits it; and when no
\* executor has an allowlist, the pass has made as many allocations as there were
\* allocatable tasks or free slots, whichever is fewer.
C30_Maximality ==
    [][PassReturned =>
         LET new == request'[1].result.value.new_allocations
             tasks_before == Cardinality(Allocatable)
             free_before == FreeCapacity(DOMAIN executors)
         IN /\ \A t \in TaskIds, e \in ExecutorIds : ~Placeable(t, e)'
            /\ (\A e \in DOMAIN executors : executors[e].function_allowlist = None)
                  => Len(new) = IF tasks_before < free_before THEN tasks_before
                                ELSE free_before]_vars

\* A pass has made an allocation and has left an allocatable task in the
\* unallocated index next to an executor below the maximum, which does not admit it.
C30_Witness ==
    /\ request # None
    /\ request[1].change.kind \in {"ExecutorAdded", "ExecutorRemoved"}
    /\ request[1].result.ok
    /\ request[1].result.value.new_allocations # <<>>
    /\ \E t \in Allocatable, e \in DOMAIN executors :
          /\ Held(e) < MAX_ALLOCATIONS_PER_EXECUTOR
          /\ ~AllowlistAdmits([executor_id |-> e, task_id |-> t])

====
